---- MODULE Spec2Model ----
(***************************************************************************)
(* Game Timeline (MoveHistory) and GameController (ChessEngine) of the     *)
(* Chess-Bot repository, over a scripted stand-in for the chess.js rules   *)
(* oracle.                                                                 *)
(*                                                                         *)
(* The oracle is an external library.  It is modelled as a small           *)
(* deterministic rules system with the properties of chess.js the code     *)
(* relies on: a position is a FEN text, move() either applies a legal move *)
(* or throws without changing the position, load() validates before it     *)
(* mutates, legality depends on the position (square and side to move),    *)
(* and some positions are checkmate or stalemate.  A position is a counter *)
(* square 0..MaxSq with a side to move; a move advances the counter by one *)
(* or two squares and passes the turn.                                     *)
(***************************************************************************)
EXTENDS Integers, Sequences, FiniteSets, TLC

MaxSq == 3         \* last square of the oracle's board
MaxHistLen == 1    \* largest maxHistoryLength a controller configuration carries
MaxKeep == 3       \* largest maxHistoryLength of a MoveHistory driven directly
MaxTokLen == 4     \* longest move token handed to sanitizeNotation
MaxClock == 1      \* largest clock and move number written in a FEN sample
MaxBoard == 2      \* files and ranks of the board the disambiguated moves are on
MaxOthers == 2     \* most moves the oracle lists besides the move disambiguated

VARIABLES
    chess,             \* ChessEngine.chess / MoveHistory.chess: the live position
    historyOn,         \* ChessEngine.history # null
    moves,             \* MoveHistory.moves
    currentIndex,      \* MoveHistory.currentIndex
    startingPosition,  \* MoveHistory.startingPosition
    histMax,           \* MoveHistory.maxHistoryLength
    config,            \* ChessEngine.config
    result,            \* what the last call handed back to its caller
    logging,           \* ChessEngine.config.enableLogging
    twin,              \* a first controller's run, kept to compare a second with
    stockfishEngine,   \* the module-level Stockfish worker of stockfishEngine.ts
    isInitialized,     \* ChessEngine.isInitialized of engineWrapper.ts
    analyses           \* the analyzePosition calls made so far and their promises

vars == <<chess, historyOn, moves, currentIndex, startingPosition, histMax,
          config, result, logging, twin, stockfishEngine, isInitialized,
          analyses>>

---------------------------------------------------------------------------
(* The oracle: positions, position texts, legality.                        *)

Fen(k, s, t) == [kind |-> k, sq |-> s, turn |-> t]

Positions == {Fen("ok", s, t) : s \in 0..MaxSq, t \in {"w", "b"}}

\* a text validateFEN rejects ('invalid-fen-string')
MALFORMED_FEN == Fen("malformed", 0, "w")

\* a text validateFEN accepts and the oracle refuses (a board without kings)
ILLEGAL_FEN == Fen("illegal", 0, "w")

STARTING_POSITION_FEN == Fen("ok", 0, "w")

\* the position texts callers pass in: the standard start, a position one move
\* in, a checkmate (TEST_POSITIONS.CHECKMATE), and the two kinds of bad text
FenTexts == {STARTING_POSITION_FEN, Fen("ok", 1, "b"), Fen("ok", MaxSq, "w"),
             MALFORMED_FEN, ILLEGAL_FEN}

Other(t) == IF t = "w" THEN "b" ELSE "w"

isCheckmate(p) == p.sq = MaxSq

isStalemate(p) == p.sq = MaxSq - 1 /\ p.turn = "b"

isDraw(p) == isStalemate(p)

isGameOver(p) == isCheckmate(p) \/ isStalemate(p) \/ isDraw(p)

isCheck(p) == isCheckmate(p) \/ (p.sq = MaxSq - 1 /\ p.turn = "w")

\* move keys: 1 and 2 advance the counter, 3 is a well-formed move that no
\* position allows
MoveKeys == {1, 2, 3}

\* chess.move(m) succeeds
Legal(p, m) == m \in {1, 2} /\ ~isGameOver(p) /\ p.sq + m <= MaxSq

\* the position chess.move(m) leaves
Apply(p, m) == Fen("ok", p.sq + m, Other(p.turn))

\* chess.load(fen) / new Chess(fen) succeeds
OracleLoads(fen) == fen.kind = "ok"

\* the repository's own validateFEN: the six-field syntax check
validateFEN(fen) == fen.kind # "malformed"

---------------------------------------------------------------------------
(* Texts.  A text is a sequence of one-character strings.                  *)

Digits == {"0", "1", "2", "3", "4", "5", "6", "7", "8", "9"}

DigitVal(c) ==
    CASE c = "0" -> 0 [] c = "1" -> 1 [] c = "2" -> 2 [] c = "3" -> 3
      [] c = "4" -> 4 [] c = "5" -> 5 [] c = "6" -> 6 [] c = "7" -> 7
      [] c = "8" -> 8 [] c = "9" -> 9

\* the characters \s matches and trim() removes
Whitespace == {" ", "\t"}

\* s without its first n characters
Drop(s, n) == IF n >= Len(s) THEN <<>> ELSE SubSeq(s, n + 1, Len(s))

\* the length of the longest prefix of s made of characters of set
RECURSIVE Span(_, _)
Span(s, set) ==
    IF s = <<>> \/ Head(s) \notin set THEN 0 ELSE 1 + Span(Tail(s), set)

\* the length of the longest suffix of s made of characters of set
RECURSIVE SpanEnd(_, _)
SpanEnd(s, set) ==
    IF s = <<>> \/ s[Len(s)] \notin set THEN 0
    ELSE 1 + SpanEnd(SubSeq(s, 1, Len(s) - 1), set)

\* String.prototype.trim
Trim(s) ==
    LET t == Drop(s, Span(s, Whitespace))
    IN  SubSeq(t, 1, Len(t) - SpanEnd(t, Whitespace))

\* s starts with the text pat
StartsWith(s, pat) == Len(s) >= Len(pat) /\ SubSeq(s, 1, Len(pat)) = pat

\* s.replace(/pat/g, by) for a literal pat
RECURSIVE ReplaceAll(_, _, _)
ReplaceAll(s, pat, by) ==
    IF s = <<>> THEN <<>>
    ELSE IF StartsWith(s, pat) THEN by \o ReplaceAll(Drop(s, Len(pat)), pat, by)
    ELSE <<Head(s)>> \o ReplaceAll(Tail(s), pat, by)

\* s.replace(/\s+/g, '')
RemoveWhitespace(s) == SelectSeq(s, LAMBDA c : c \notin Whitespace)

---------------------------------------------------------------------------
(* Move inputs.  A string input is the SAN of a move, possibly typed with  *)
(* a move-number prefix ("1.e4"); the oracle's SAN parser refuses the      *)
(* prefixed form.                                                          *)

StringInputs == [kind : {"string"}, tok : MoveKeys, numbered : BOOLEAN]

ObjectInputs == [kind : {"object"}, tok : MoveKeys, numbered : {FALSE}]

MoveInputs == StringInputs \cup ObjectInputs

\* the SAN of a move key
SanChar(m) == CASE m = 1 -> "a" [] m = 2 -> "b" [] m = 3 -> "x"

\* the text of a string input
NotationOf(input) ==
    (IF input.numbered THEN <<"1", ".">> ELSE <<>>) \o <<SanChar(input.tok)>>

\* the annotation glyphs sanitizeNotation strips from the end
Glyphs == {"!", "?", "+", "#"}

\* .replace(/^\d+\.+\s*/, ''): a move number, its dots and the blanks after
StripMoveNumber(s) ==
    LET nd   == Span(s, Digits)
        dots == Span(Drop(s, nd), {"."})
        rest == Drop(s, nd + dots)
    IN  IF nd > 0 /\ dots > 0 THEN Drop(rest, Span(rest, Whitespace)) ELSE s

\* .replace(/[!?+#]*$/, ''): the run of glyphs at the end
StripGlyphs(s) == SubSeq(s, 1, Len(s) - SpanEnd(s, Glyphs))

sanitizeNotation(notation) ==
    IF notation = <<>> THEN <<>>
    ELSE LET trimmed  == Trim(notation)
             unnum    == StripMoveNumber(trimmed)
             bare     == StripGlyphs(unnum)
             castle3  == ReplaceAll(bare, <<"0", "-", "0", "-", "0">>,
                                    <<"O", "-", "O", "-", "O">>)
             castle2  == ReplaceAll(castle3, <<"0", "-", "0">>, <<"O", "-", "O">>)
         IN  RemoveWhitespace(castle2)

\* chess.move(san) succeeds on the position p
SanLegal(p, san) == \E m \in MoveKeys : san = <<SanChar(m)>> /\ Legal(p, m)

---------------------------------------------------------------------------
(* MoveHistory                                                             *)

\* an entry whose flags were not read from the oracle
Entry_NoFlags(m, p) ==
    [move |-> m, san |-> m, fen |-> p, isCheck |-> FALSE,
     isCheckmate |-> FALSE, isStalemate |-> FALSE]

\* the MoveHistoryEntry built from an applied move; p is chess.fen() after it
Entry(m, p) ==
    [move |-> m, san |-> m, fen |-> p, isCheck |-> isCheck(p),
     isCheckmate |-> isCheckmate(p), isStalemate |-> isStalemate(p)]

Max(a, b) == IF a > b THEN a ELSE b

\* moves.slice(from0, to0) with 0-based, end-exclusive indices
Slice(s, from0, to0) ==
    LET lo == Max(from0, 0)
        hi == IF to0 > Len(s) THEN Len(s) ELSE to0
    IN  IF hi <= lo THEN <<>> ELSE SubSeq(s, lo + 1, hi)

\* addMove without the cut of the redo tail
addMove_NoCut(mvs, idx, max, e) ==
    LET pushed == Append(mvs, e)
        removeCount == Len(pushed) - max
    IN  IF Len(pushed) > max
        THEN [moves |-> Slice(pushed, removeCount, Len(pushed)),
              currentIndex |-> Len(pushed) - 1 - removeCount]
        ELSE [moves |-> pushed, currentIndex |-> Len(pushed) - 1]

\* addMove evicting without moving the index back
addMove_NoShift(mvs, idx, max, e) ==
    LET cut    == IF idx < Len(mvs) - 1 THEN Slice(mvs, 0, idx + 1) ELSE mvs
        pushed == Append(cut, e)
    IN  IF Len(pushed) > max
        THEN [moves |-> Slice(pushed, Len(pushed) - max, Len(pushed)),
              currentIndex |-> idx + 1]
        ELSE [moves |-> pushed, currentIndex |-> idx + 1]

\* addMove: cut the redo tail, append, advance, evict from the front
addMove(mvs, idx, max, e) ==
    LET cut    == IF idx < Len(mvs) - 1 THEN Slice(mvs, 0, idx + 1) ELSE mvs
        pushed == Append(cut, e)
        idx1   == idx + 1
        removeCount == Len(pushed) - max
    IN  IF Len(pushed) > max
        THEN [moves |-> Slice(pushed, removeCount, Len(pushed)),
              currentIndex |-> idx1 - removeCount]
        ELSE [moves |-> pushed, currentIndex |-> idx1]

canUndo(idx) == idx >= 0

canRedo(mvs, idx) == idx < Len(mvs) - 1

\* the loop of restorePosition from entry i (0-based) on: a rejected entry
\* stops the replay where it stands
RECURSIVE ReplayLoop(_, _, _, _)
ReplayLoop(p, mvs, i, idx) ==
    IF i > idx THEN p
    ELSE IF i < Len(mvs)
         THEN IF Legal(p, mvs[i + 1].move)
              THEN ReplayLoop(Apply(p, mvs[i + 1].move), mvs, i + 1, idx)
              ELSE p
         ELSE ReplayLoop(p, mvs, i + 1, idx)

\* restorePosition: load the starting position, replay entries 0..idx
restorePosition(start, mvs, idx) == ReplayLoop(start, mvs, 0, idx)

---------------------------------------------------------------------------
(* Transcript texts: move tokens, each possibly preceded by a move number. *)

Tok(m, n) == [tok |-> m, numbered |-> n]

\* the transcripts callers pass in: "", "1. a", "1. a a" (a black reply without
\* a number of its own), "1. a 1... a", "1. b 1... a", "1. a 1... x" (an illegal
\* reply), "1. x", "1. a x" (an illegal reply without a number)
PgnTexts == {<<>>, <<Tok(1, TRUE)>>, <<Tok(1, TRUE), Tok(1, FALSE)>>,
             <<Tok(1, TRUE), Tok(1, TRUE)>>, <<Tok(2, TRUE), Tok(1, TRUE)>>,
             <<Tok(1, TRUE), Tok(3, TRUE)>>, <<Tok(3, TRUE)>>,
             <<Tok(1, TRUE), Tok(3, FALSE)>>}

\* the tokens the moveRegex of loadFromPGN captures: a token is matched only
\* together with the move number in front of it
RegexMatches(pgn) == SelectSeq(pgn, LAMBDA t : t.numbered)

\* the while loop of loadFromPGN over the captured tokens, on a scratch
\* position: a rejected token makes loadFromPGN return false
RECURSIVE ParseLoop(_, _, _)
ParseLoop(p, toks, acc) ==
    IF toks = <<>> THEN [ok |-> TRUE, moves |-> acc]
    ELSE IF Legal(p, Head(toks).tok)
         THEN ParseLoop(Apply(p, Head(toks).tok), Tail(toks),
                        Append(acc, Entry(Head(toks).tok, Apply(p, Head(toks).tok))))
         ELSE [ok |-> FALSE, moves |-> <<>>]

\* chess.loadPgn(pgn) of the oracle: reset, then apply every move of the text;
\* an illegal move throws and leaves the moves before it applied
RECURSIVE OracleLoadPgn(_, _)
OracleLoadPgn(p, toks) ==
    IF toks = <<>> THEN [ok |-> TRUE, pos |-> p]
    ELSE IF Legal(p, Head(toks).tok)
         THEN OracleLoadPgn(Apply(p, Head(toks).tok), Tail(toks))
         ELSE [ok |-> FALSE, pos |-> p]

---------------------------------------------------------------------------
(* Results handed to the caller.  kind is "result" for an                  *)
(* EngineOperationResult, "bare" for a plain value or void, "raised" for   *)
(* an exception that left the call.                                        *)

ErrorTypes == {"INVALID_MOVE", "INVALID_FEN", "INVALID_NOTATION", "GAME_OVER",
               "ILLEGAL_POSITION", "HISTORY_ERROR", "VALIDATION_ERROR",
               "UNKNOWN_ERROR"}

Ok(op, arg, data) ==
    [op |-> op, kind |-> "result", success |-> TRUE, error |-> "none",
     data |-> data, arg |-> arg]

Fail(op, arg, err) ==
    [op |-> op, kind |-> "result", success |-> FALSE, error |-> err,
     data |-> "none", arg |-> arg]

Bare(op) ==
    [op |-> op, kind |-> "bare", success |-> TRUE, error |-> "none",
     data |-> "none", arg |-> "none"]

Raised(op, err) ==
    [op |-> op, kind |-> "raised", success |-> FALSE, error |-> err,
     data |-> "none", arg |-> "none"]

\* what a function that may throw does: it throws, or it returns a value
Thrown == [threw |-> TRUE, value |-> <<>>]

Returned(value) == [threw |-> FALSE, value |-> value]

\* the call sites of the oracle at which an unexpected internal fault can
\* surface; the fault "none" of an action is the oracle conforming
Faults == {"isGameOver", "move", "fen", "load", "restore", "state", "new"}

---------------------------------------------------------------------------
(* ChessEngine                                                             *)

Configs == [enableHistory : BOOLEAN, maxHistoryLength : 1..MaxHistLen]

ABSENT_FEN == Fen("absent", 0, "w")

\* the fields of a controller without a MoveHistory (history = null)
NoHistory ==
    /\ historyOn' = FALSE
    /\ moves' = <<>>
    /\ currentIndex' = -1
    /\ startingPosition' = STARTING_POSITION_FEN
    /\ histMax' = 0

\* createMoveHistory(chess, startingPosition, maxLength)
createMoveHistory(start, max) ==
    /\ historyOn' = TRUE
    /\ moves' = <<>>
    /\ currentIndex' = -1
    /\ startingPosition' = start
    /\ histMax' = max

\* new ChessEngine(startingPosition, config)
Constructed(fen, cfg) ==
    /\ chess = fen
    /\ config = cfg
    /\ historyOn = cfg.enableHistory
    /\ moves = <<>>
    /\ currentIndex = -1
    /\ startingPosition = IF cfg.enableHistory THEN fen ELSE STARTING_POSITION_FEN
    /\ histMax = IF cfg.enableHistory THEN cfg.maxHistoryLength ELSE 0
    /\ result = Bare("constructor")

\* no run is kept: one controller alone
NoTwin ==
    [run |-> 0, enabled |-> FALSE, fen |-> STARTING_POSITION_FEN,
     config |-> [enableHistory |-> FALSE, maxHistoryLength |-> 1],
     calls |-> <<>>, seen |-> <<>>, at |-> 0]

\* most analyzePosition calls made on the engine
MaxAnalyses == 2

\* no position: the bestMove and evaluation a handler starts from
NoPosition == Fen("none", 0, "w")

\* let stockfishEngine = null, and the worker's side of it: the listeners
\* registered on it, the commands posted to it and not read yet, the
\* position it was last given, and the lines it wrote that are not
\* delivered yet
NoEngine ==
    [ready |-> FALSE, listeners |-> {}, commands |-> <<>>,
     position |-> STARTING_POSITION_FEN, messages |-> <<>>]

\* an analyzePosition call that was not made yet
NoAnalysis ==
    [status |-> "unused", via |-> "direct", fen |-> NoPosition,
     bestMove |-> NoPosition, evaluation |-> NoPosition, timeout |-> FALSE,
     sent |-> 0]

\* the analysis engine is left alone
NoEngineCall == UNCHANGED <<stockfishEngine, isInitialized, analyses>>

\* no engine was started and no analysis asked for
EngineOff ==
    /\ stockfishEngine = NoEngine
    /\ isInitialized = FALSE
    /\ analyses = [c \in 1..MaxAnalyses |-> NoAnalysis]

\* a call that neither touches the logging option, nor belongs to a kept run,
\* nor reaches the analysis engine
Idle == UNCHANGED <<logging, twin>> /\ NoEngineCall

\* enableLogging defaults to false
Init ==
    /\ \E fen \in {t \in FenTexts : OracleLoads(t)}, cfg \in Configs : Constructed(fen, cfg)
    /\ logging = FALSE
    /\ twin = NoTwin
    /\ EngineOff

\* a construction that throws: the caller keeps the controller it had (a
\* construction that succeeds starts a behaviour, see Init)
ConstructFails(fen, f) ==
    /\ ~OracleLoads(fen) \/ f = "new"
    /\ result' = Raised("constructor", "INVALID_FEN")
    /\ UNCHANGED <<chess, historyOn, moves, currentIndex, startingPosition,
                   histMax, config>>

\* a rejected move object falling through to the outer catch of makeMove
RejectType_Outer(input) ==
    IF input.kind = "string" THEN "INVALID_NOTATION" ELSE "UNKNOWN_ERROR"

\* the error type of a rejected move input
RejectType(input) ==
    IF input.kind = "string" THEN "INVALID_NOTATION" ELSE "INVALID_MOVE"

\* parseMove / chess.move(moveInput): the oracle accepts the input
Accepts(p, input) ==
    IF input.kind = "string"
    THEN SanLegal(p, sanitizeNotation(NotationOf(input)))
    ELSE Legal(p, input.tok)

\* makeMove without the game-over check
MakeMove_NoGameOverCheck(input, f) ==
    IF ~Accepts(chess, input) \/ f = "move" \/ f = "isGameOver"
    THEN /\ result' = Fail("makeMove", input.kind, RejectType(input))
         /\ UNCHANGED <<chess, historyOn, moves, currentIndex, startingPosition,
                        histMax, config>>
    ELSE /\ chess' = Apply(chess, input.tok)
         /\ result' = Ok("makeMove", input.kind, "entry")
         /\ IF historyOn
            THEN LET h == addMove(moves, currentIndex, histMax,
                                  Entry(input.tok, Apply(chess, input.tok)))
                 IN  /\ moves' = h.moves
                     /\ currentIndex' = h.currentIndex
            ELSE UNCHANGED <<moves, currentIndex>>
         /\ UNCHANGED <<historyOn, startingPosition, histMax, config>>

MakeMove(input, f) ==
    IF f = "isGameOver"
    THEN /\ result' = Fail("makeMove", input.kind, "UNKNOWN_ERROR")
         /\ UNCHANGED <<chess, historyOn, moves, currentIndex, startingPosition,
                        histMax, config>>
    ELSE IF isGameOver(chess)
    THEN /\ result' = Fail("makeMove", input.kind, "GAME_OVER")
         /\ UNCHANGED <<chess, historyOn, moves, currentIndex, startingPosition,
                        histMax, config>>
    ELSE IF ~Accepts(chess, input) \/ f = "move"
    THEN /\ result' = Fail("makeMove", input.kind, RejectType(input))
         /\ UNCHANGED <<chess, historyOn, moves, currentIndex, startingPosition,
                        histMax, config>>
    ELSE /\ chess' = Apply(chess, input.tok)
         /\ IF f = "fen"
            THEN /\ result' = Fail("makeMove", input.kind, "UNKNOWN_ERROR")
                 /\ UNCHANGED <<moves, currentIndex>>
            ELSE /\ result' = Ok("makeMove", input.kind, "entry")
                 /\ IF historyOn
                    THEN LET h == addMove(moves, currentIndex, histMax,
                                          Entry(input.tok, Apply(chess, input.tok)))
                         IN  /\ moves' = h.moves
                             /\ currentIndex' = h.currentIndex
                    ELSE UNCHANGED <<moves, currentIndex>>
         /\ UNCHANGED <<historyOn, startingPosition, histMax, config>>

\* undo/redo answering false on a controller without a history
HistoryDisabled_Soft(op) ==
    /\ result' = Ok(op, "none", "false")
    /\ UNCHANGED <<chess, historyOn, moves, currentIndex, startingPosition,
                   histMax, config>>

HistoryDisabled(op) ==
    /\ result' = Fail(op, "none", "HISTORY_ERROR")
    /\ UNCHANGED <<chess, historyOn, moves, currentIndex, startingPosition,
                   histMax, config>>

\* undoMove without its try/catch
UndoMove_NoCatch(f) ==
    IF ~historyOn THEN HistoryDisabled("undoMove")
    ELSE IF ~canUndo(currentIndex)
    THEN /\ result' = Ok("undoMove", "none", "false")
         /\ UNCHANGED <<chess, historyOn, moves, currentIndex, startingPosition,
                        histMax, config>>
    ELSE /\ currentIndex' = currentIndex - 1
         /\ IF f = "restore"
            THEN /\ result' = Raised("undoMove", "none")
                 /\ UNCHANGED chess
            ELSE /\ result' = Ok("undoMove", "none", "true")
                 /\ chess' = restorePosition(startingPosition, moves, currentIndex - 1)
         /\ UNCHANGED <<historyOn, moves, startingPosition, histMax, config>>

UndoMove(f) ==
    IF ~historyOn THEN HistoryDisabled("undoMove")
    ELSE IF ~canUndo(currentIndex)
    THEN /\ result' = Ok("undoMove", "none", "false")
         /\ UNCHANGED <<chess, historyOn, moves, currentIndex, startingPosition,
                        histMax, config>>
    ELSE /\ currentIndex' = currentIndex - 1
         /\ IF f = "restore"
            THEN /\ result' = Fail("undoMove", "none", "HISTORY_ERROR")
                 /\ UNCHANGED chess
            ELSE /\ result' = Ok("undoMove", "none", "true")
                 /\ chess' = restorePosition(startingPosition, moves, currentIndex - 1)
         /\ UNCHANGED <<historyOn, moves, startingPosition, histMax, config>>

\* redo: advance, apply the entry's move on the live position, revert the
\* index when the oracle throws
RedoMove(f) ==
    IF ~historyOn THEN HistoryDisabled("redoMove")
    ELSE IF /\ canRedo(moves, currentIndex)
            /\ currentIndex + 1 >= 0
            /\ f # "move"
            /\ Legal(chess, moves[currentIndex + 2].move)
    THEN /\ currentIndex' = currentIndex + 1
         /\ chess' = Apply(chess, moves[currentIndex + 2].move)
         /\ result' = Ok("redoMove", "none", "true")
         /\ UNCHANGED <<historyOn, moves, startingPosition, histMax, config>>
    ELSE /\ result' = Ok("redoMove", "none", "false")
         /\ UNCHANGED <<chess, historyOn, moves, currentIndex, startingPosition,
                        histMax, config>>

\* loadFEN clearing the history before it validates the text
loadFENBody_ClearFirst(op, fen, f) ==
    /\ IF historyOn
       THEN /\ moves' = <<>>
            /\ currentIndex' = -1
            /\ chess' = restorePosition(startingPosition, <<>>, -1)
       ELSE /\ chess' = IF validateFEN(fen) /\ OracleLoads(fen) THEN fen ELSE chess
            /\ UNCHANGED <<moves, currentIndex>>
    /\ result' = IF validateFEN(fen) /\ OracleLoads(fen) /\ f = "none"
                 THEN Ok(op, "none", "state")
                 ELSE Fail(op, "none", "INVALID_FEN")
    /\ UNCHANGED <<historyOn, startingPosition, histMax, config>>

\* the body of loadFEN, shared by loadFEN and reset
loadFENBody(op, fen, f) ==
    IF ~validateFEN(fen) \/ ~OracleLoads(fen) \/ f = "load"
    THEN /\ result' = Fail(op, "none", "INVALID_FEN")
         /\ UNCHANGED <<chess, historyOn, moves, currentIndex, startingPosition,
                        histMax, config>>
    ELSE /\ IF historyOn
            THEN /\ moves' = <<>>
                 /\ currentIndex' = -1
                 /\ chess' = IF f = "restore" THEN fen
                             ELSE restorePosition(startingPosition, <<>>, -1)
            ELSE /\ chess' = fen
                 /\ UNCHANGED <<moves, currentIndex>>
         /\ result' = IF historyOn /\ f = "restore" THEN Fail(op, "none", "INVALID_FEN")
                      ELSE IF f = "state" THEN Fail(op, "none", "VALIDATION_ERROR")
                      ELSE Ok(op, "none", "state")
         /\ UNCHANGED <<historyOn, startingPosition, histMax, config>>

LoadFEN(fen, f) == loadFENBody("loadFEN", fen, f)

Reset(fen, f) ==
    loadFENBody("reset", IF fen = ABSENT_FEN THEN STARTING_POSITION_FEN ELSE fen, f)

\* the startingFen arguments of loadPGN
PgnStarts == {ABSENT_FEN, Fen("ok", 1, "b"), ILLEGAL_FEN}

\* loadPGN(pgn, startingFen)
LoadPGN(pgn, sfen, f) ==
    IF historyOn /\ sfen # ABSENT_FEN
    THEN \* history.loadFromPGN(pgn, startingFen)
         LET parsed == ParseLoop(sfen, RegexMatches(pgn), <<>>)
         IN  IF ~OracleLoads(sfen) \/ f = "new" \/ ~parsed.ok
             THEN /\ result' = Ok("loadPGN", "none", "false")
                  /\ UNCHANGED <<chess, historyOn, moves, currentIndex,
                                 startingPosition, histMax, config>>
             ELSE /\ moves' = parsed.moves
                  /\ currentIndex' = Len(parsed.moves) - 1
                  /\ IF f = "restore"
                     THEN /\ result' = Ok("loadPGN", "none", "false")
                          /\ UNCHANGED chess
                     ELSE /\ result' = Ok("loadPGN", "none", "true")
                          /\ chess' = restorePosition(startingPosition, parsed.moves,
                                                      Len(parsed.moves) - 1)
                  /\ UNCHANGED <<historyOn, startingPosition, histMax, config>>
    ELSE \* chess.loadPgn(pgn), then rebuildHistoryFromChess
         LET run == OracleLoadPgn(STARTING_POSITION_FEN, pgn)
         IN  IF f = "load"
             THEN /\ result' = Fail("loadPGN", "none", "VALIDATION_ERROR")
                  /\ UNCHANGED <<chess, historyOn, moves, currentIndex,
                                 startingPosition, histMax, config>>
             ELSE IF ~run.ok
             THEN /\ result' = Fail("loadPGN", "none", "VALIDATION_ERROR")
                  /\ chess' = run.pos
                  /\ UNCHANGED <<historyOn, moves, currentIndex, startingPosition,
                                 histMax, config>>
             ELSE /\ result' = Ok("loadPGN", "none", "true")
                  /\ IF historyOn
                     THEN /\ moves' = <<>>
                          /\ currentIndex' = -1
                          /\ chess' = IF f = "restore" THEN run.pos
                                      ELSE restorePosition(startingPosition, <<>>, -1)
                     ELSE /\ chess' = run.pos
                          /\ UNCHANGED <<moves, currentIndex>>
                  /\ UNCHANGED <<historyOn, startingPosition, histMax, config>>

\* a Partial<ChessEngineConfig>: enableHistory is "absent", "true" or "false",
\* maxHistoryLength 0 stands for an absent key
NewConfigs == [enableHistory : {"absent", "true", "false"},
               maxHistoryLength : 0..MaxHistLen]

Merged(cfg, nc) ==
    [enableHistory |-> IF nc.enableHistory = "absent" THEN cfg.enableHistory
                       ELSE nc.enableHistory = "true",
     maxHistoryLength |-> IF nc.maxHistoryLength = 0 THEN cfg.maxHistoryLength
                          ELSE nc.maxHistoryLength]

\* updateConfig attaching a history seeded at the standard starting position
UpdateConfig_StandardStart(nc, f) ==
    /\ config' = Merged(config, nc)
    \* if ('enableLogging' in newConfig) this.logger = ...
    /\ logging' = IF "enableLogging" \in DOMAIN nc THEN nc.enableLogging
                  ELSE logging
    /\ IF nc.enableHistory = "true" /\ ~historyOn
       THEN /\ createMoveHistory(STARTING_POSITION_FEN,
                                 Merged(config, nc).maxHistoryLength)
            /\ chess' = restorePosition(STARTING_POSITION_FEN, <<>>, -1)
            /\ result' = Bare("updateConfig")
       ELSE IF nc.enableHistory = "false" /\ historyOn
       THEN /\ NoHistory
            /\ UNCHANGED chess
            /\ result' = Bare("updateConfig")
       ELSE /\ result' = Bare("updateConfig")
            /\ UNCHANGED <<chess, historyOn, moves, currentIndex,
                           startingPosition, histMax>>

UpdateConfig(nc, f) ==
    /\ config' = Merged(config, nc)
    \* if ('enableLogging' in newConfig) this.logger = ...
    /\ logging' = IF "enableLogging" \in DOMAIN nc THEN nc.enableLogging
                  ELSE logging
    /\ IF nc.enableHistory = "true" /\ ~historyOn
       THEN IF f = "fen"
            THEN /\ result' = Raised("updateConfig", "none")
                 /\ UNCHANGED <<chess, historyOn, moves, currentIndex,
                                startingPosition, histMax>>
            ELSE /\ createMoveHistory(chess, Merged(config, nc).maxHistoryLength)
                 \* rebuildHistoryFromChess: clearHistory reloads the starting
                 \* position of the new history, which is the live position
                 /\ chess' = IF f = "restore" THEN chess
                             ELSE restorePosition(chess, <<>>, -1)
                 /\ result' = Bare("updateConfig")
       ELSE IF nc.enableHistory = "false" /\ historyOn
       THEN /\ NoHistory
            /\ UNCHANGED chess
            /\ result' = Bare("updateConfig")
       ELSE /\ result' = Bare("updateConfig")
            /\ UNCHANGED <<chess, historyOn, moves, currentIndex,
                           startingPosition, histMax>>

GetHistory ==
    /\ result' = IF historyOn THEN Ok("getHistory", "none", "entries")
                 ELSE Fail("getHistory", "none", "HISTORY_ERROR")
    /\ UNCHANGED <<chess, historyOn, moves, currentIndex, startingPosition,
                   histMax, config>>

GetPGN(f) ==
    /\ result' = IF (historyOn /\ f = "new") \/ (~historyOn /\ f = "fen")
                 THEN Fail("getPGN", "none", "VALIDATION_ERROR")
                 ELSE Ok("getPGN", "none", "text")
    /\ UNCHANGED <<chess, historyOn, moves, currentIndex, startingPosition,
                   histMax, config>>

GetFEN(f) ==
    /\ result' = IF f = "fen" THEN Raised("getFEN", "none") ELSE Bare("getFEN")
    /\ UNCHANGED <<chess, historyOn, moves, currentIndex, startingPosition,
                   histMax, config>>

GetGameResult(f) ==
    /\ result' = IF f = "state" THEN Raised("getGameResult", "none")
                 ELSE Bare("getGameResult")
    /\ UNCHANGED <<chess, historyOn, moves, currentIndex, startingPosition,
                   histMax, config>>

\* the call sites an action draws its fault from: its own, as far as the
\* oracle at hand fails at them
Sites(own, F) == {"none"} \cup (own \cap F)

\* every public operation of the controller, over an oracle that may fail at
\* the call sites F
Step(F) ==
    \/ \E fen \in FenTexts, f \in Sites({"new"}, F) : ConstructFails(fen, f) /\ Idle
    \/ \E input \in MoveInputs, f \in Sites({"isGameOver", "move", "fen"}, F) :
          MakeMove(input, f) /\ Idle
    \/ \E f \in Sites({"restore"}, F) : UndoMove(f) /\ Idle
    \/ \E f \in Sites({"move"}, F) : RedoMove(f) /\ Idle
    \/ \E fen \in FenTexts, f \in Sites({"load", "restore", "state"}, F) :
          LoadFEN(fen, f) /\ Idle
    \/ \E fen \in FenTexts \cup {ABSENT_FEN},
          f \in Sites({"load", "restore", "state"}, F) : Reset(fen, f) /\ Idle
    \/ \E pgn \in PgnTexts, sfen \in PgnStarts,
          f \in Sites({"new", "load", "restore"}, F) : LoadPGN(pgn, sfen, f) /\ Idle
    \/ \E nc \in NewConfigs, f \in Sites({"fen", "restore"}, F) :
          UpdateConfig(nc, f) /\ UNCHANGED twin /\ NoEngineCall
    \/ GetHistory /\ Idle
    \/ \E f \in Sites({"new", "fen"}, F) : GetPGN(f) /\ Idle
    \/ \E f \in Sites({"fen"}, F) : GetFEN(f) /\ Idle
    \/ \E f \in Sites({"state"}, F) : GetGameResult(f) /\ Idle

\* the controller over a conforming oracle
Next == Step({})

Spec == Init /\ [][Next]_vars

\* the controller over an oracle that may fail unexpectedly at any call
NextFault == Step(Faults)

SpecFault == Init /\ [][NextFault]_vars

---------------------------------------------------------------------------
(* Two controllers that differ in enableLogging alone.  A first controller *)
(* is built and called; its calls and what each handed back are kept in    *)
(* twin.  A second controller is then built from the same arguments with   *)
(* enableLogging flipped, and is given the same calls in the same order.   *)

\* most calls made on the first controller
MaxCalls == 3

\* a logger that throws when logging is enabled
logger_Throws(enabled) == [lines |-> IF enabled THEN 1 ELSE 0, threw |-> enabled]

\* this.logger(message, level): console[level](...) when logging is enabled,
\* a no-op otherwise; it hands nothing back and does not throw
logger(enabled) == [lines |-> IF enabled THEN 1 ELSE 0, threw |-> FALSE]

\* a Partial<ChessEngineConfig> that carries the enableLogging key
LoggingConfigs ==
    [enableHistory : {"absent"}, maxHistoryLength : {0}, enableLogging : BOOLEAN]

LoggedCall(op, input, fen, pgn, nc) ==
    [op |-> op, input |-> input, fen |-> fen, pgn |-> pgn, config |-> nc]

NoInput == [kind |-> "string", tok |-> 1, numbered |-> FALSE]

NoConfig == [enableHistory |-> "absent", maxHistoryLength |-> 0]

\* the calls made on either controller
LoggedCalls ==
    {LoggedCall("makeMove", i, ABSENT_FEN, <<>>, NoConfig) :
        i \in {NoInput, [kind |-> "object", tok |-> 3, numbered |-> FALSE]}}
    \cup {LoggedCall(op, NoInput, ABSENT_FEN, <<>>, NoConfig) :
            op \in {"undoMove", "redoMove", "reset"}}
    \cup {LoggedCall("loadFEN", NoInput, MALFORMED_FEN, <<>>, NoConfig),
          LoggedCall("loadPGN", NoInput, ABSENT_FEN, <<Tok(1, TRUE)>>, NoConfig)}
    \cup {LoggedCall("updateConfig", NoInput, ABSENT_FEN, <<>>, nc) :
            nc \in LoggingConfigs
                   \cup {[NoConfig EXCEPT !.enableHistory = h] :
                            h \in {"true", "false"}}}

\* the call c on the controller at hand; every handler calls this.logger on
\* its way, and would be left by a logger that threw
Call(c) ==
    IF logger(logging).threw
    THEN /\ result' = Raised(c.op, "none")
         /\ UNCHANGED <<chess, historyOn, moves, currentIndex, startingPosition,
                        histMax, config, logging>>
    ELSE \/ c.op = "makeMove" /\ MakeMove(c.input, "none") /\ UNCHANGED logging
         \/ c.op = "undoMove" /\ UndoMove("none") /\ UNCHANGED logging
         \/ c.op = "redoMove" /\ RedoMove("none") /\ UNCHANGED logging
         \/ c.op = "reset" /\ Reset(c.fen, "none") /\ UNCHANGED logging
         \/ c.op = "loadFEN" /\ LoadFEN(c.fen, "none") /\ UNCHANGED logging
         \/ c.op = "loadPGN" /\ LoadPGN(c.pgn, c.fen, "none") /\ UNCHANGED logging
         \/ c.op = "updateConfig" /\ UpdateConfig(c.config, "none")

\* what a caller sees of a controller: the last result, the live position,
\* the entries and the cursor
Seen(r, p, on, mvs, idx) ==
    [result |-> r, chess |-> p, historyOn |-> on, moves |-> mvs,
     currentIndex |-> idx]

\* new ChessEngine(STARTING_POSITION_FEN, {...cfg, enableLogging})
InitLogging ==
    \E cfg \in Configs, enabled \in BOOLEAN :
        /\ Constructed(STARTING_POSITION_FEN, cfg)
        /\ logging = enabled
        /\ twin = [NoTwin EXCEPT !.run = 1, !.enabled = enabled, !.config = cfg]
        /\ EngineOff

\* one more call on the first controller, kept with what it handed back
FirstRun(c) ==
    /\ twin.run = 1
    /\ Len(twin.calls) < MaxCalls
    /\ Call(c)
    /\ twin' = [twin EXCEPT !.calls = Append(@, c),
                            !.seen = Append(@, Seen(result', chess', historyOn',
                                                    moves', currentIndex'))]

\* the second controller: the same arguments, enableLogging the other way
SecondController ==
    /\ twin.run = 1
    /\ twin.calls # <<>>
    /\ chess' = twin.fen
    /\ config' = twin.config
    /\ IF twin.config.enableHistory
       THEN createMoveHistory(twin.fen, twin.config.maxHistoryLength)
       ELSE NoHistory
    /\ result' = Bare("constructor")
    /\ logging' = ~twin.enabled
    /\ twin' = [twin EXCEPT !.run = 2]

\* the next kept call, on the second controller
SecondRun ==
    /\ twin.run = 2
    /\ twin.at < Len(twin.calls)
    /\ Call(twin.calls[twin.at + 1])
    /\ twin' = [twin EXCEPT !.at = @ + 1]

NextLogging ==
    \/ \E c \in LoggedCalls : FirstRun(c) /\ NoEngineCall
    \/ SecondController /\ NoEngineCall
    \/ SecondRun /\ NoEngineCall

SpecLogging == InitLogging /\ [][NextLogging]_vars

---------------------------------------------------------------------------
(* MoveHistory driven directly, as test-moveHistory does: the caller owns  *)
(* the Chess instance, applies a move on it and hands the Move to addMove. *)

\* what a MoveHistory method hands back: a boolean, an entry, or nothing
Ret(op, data) ==
    [op |-> op, kind |-> "bare", success |-> TRUE, error |-> "none",
     data |-> data, arg |-> "none"]

\* the maxHistoryLength a MoveHistory gets when none is passed
DEFAULT_MAX_HISTORY_LENGTH == 1000

\* const chess = new Chess(fen); createMoveHistory(chess, undefined, max)
InitTimeline ==
    \E fen \in {t \in FenTexts : OracleLoads(t)}, max \in 1..MaxKeep :
        /\ chess = fen
        /\ historyOn = TRUE
        /\ moves = <<>>
        /\ currentIndex = -1
        /\ startingPosition = fen
        /\ histMax = max
        /\ config = [enableHistory |-> TRUE, maxHistoryLength |-> max]
        /\ result = Ret("createMoveHistory", "none")
        /\ logging = FALSE
        /\ twin = NoTwin
        /\ EngineOff

\* const move = chess.move(m); if (move) history.addMove(move)
Record(m) ==
    /\ Legal(chess, m)
    /\ chess' = Apply(chess, m)
    /\ LET h == addMove(moves, currentIndex, histMax, Entry(m, Apply(chess, m)))
       IN  /\ moves' = h.moves
           /\ currentIndex' = h.currentIndex
    /\ result' = Ret("addMove", "entry")
    /\ UNCHANGED <<historyOn, startingPosition, histMax, config>>

\* undo removing the entry it steps back over
Undo_DropEntry ==
    IF ~canUndo(currentIndex)
    THEN /\ result' = Ret("undo", "false")
         /\ UNCHANGED <<chess, historyOn, moves, currentIndex, startingPosition,
                        histMax, config>>
    ELSE /\ currentIndex' = currentIndex - 1
         /\ moves' = Slice(moves, 0, currentIndex)
         /\ chess' = restorePosition(startingPosition, moves, currentIndex - 1)
         /\ result' = Ret("undo", "true")
         /\ UNCHANGED <<historyOn, startingPosition, histMax, config>>

Undo ==
    IF ~canUndo(currentIndex)
    THEN /\ result' = Ret("undo", "false")
         /\ UNCHANGED <<chess, historyOn, moves, currentIndex, startingPosition,
                        histMax, config>>
    ELSE /\ currentIndex' = currentIndex - 1
         /\ chess' = restorePosition(startingPosition, moves, currentIndex - 1)
         /\ result' = Ret("undo", "true")
         /\ UNCHANGED <<historyOn, moves, startingPosition, histMax, config>>

\* redo leaving the index advanced when the oracle throws
Redo_NoRevert ==
    IF ~canRedo(moves, currentIndex)
    THEN /\ result' = Ret("redo", "false")
         /\ UNCHANGED <<chess, historyOn, moves, currentIndex, startingPosition,
                        histMax, config>>
    ELSE /\ currentIndex' = currentIndex + 1
         /\ IF currentIndex + 1 >= 0 /\ Legal(chess, moves[currentIndex + 2].move)
            THEN /\ chess' = Apply(chess, moves[currentIndex + 2].move)
                 /\ result' = Ret("redo", "true")
            ELSE /\ chess' = chess
                 /\ result' = Ret("redo", "false")
         /\ UNCHANGED <<historyOn, moves, startingPosition, histMax, config>>

Redo ==
    IF /\ canRedo(moves, currentIndex)
       /\ currentIndex + 1 >= 0
       /\ Legal(chess, moves[currentIndex + 2].move)
    THEN /\ currentIndex' = currentIndex + 1
         /\ chess' = Apply(chess, moves[currentIndex + 2].move)
         /\ result' = Ret("redo", "true")
         /\ UNCHANGED <<historyOn, moves, startingPosition, histMax, config>>
    ELSE /\ result' = Ret("redo", "false")
         /\ UNCHANGED <<chess, historyOn, moves, currentIndex, startingPosition,
                        histMax, config>>

GoToMove(index) ==
    IF index < -1 \/ index >= Len(moves)
    THEN /\ result' = Ret("goToMove", "false")
         /\ UNCHANGED <<chess, historyOn, moves, currentIndex, startingPosition,
                        histMax, config>>
    ELSE /\ currentIndex' = index
         /\ chess' = restorePosition(startingPosition, moves, index)
         /\ result' = Ret("goToMove", "true")
         /\ UNCHANGED <<historyOn, moves, startingPosition, histMax, config>>

GoToBeginning ==
    /\ currentIndex' = -1
    /\ chess' = restorePosition(startingPosition, moves, -1)
    /\ result' = Ret("goToBeginning", "none")
    /\ UNCHANGED <<historyOn, moves, startingPosition, histMax, config>>

GoToEnd ==
    /\ currentIndex' = Len(moves) - 1
    /\ chess' = restorePosition(startingPosition, moves, Len(moves) - 1)
    /\ result' = Ret("goToEnd", "none")
    /\ UNCHANGED <<historyOn, moves, startingPosition, histMax, config>>

ClearHistory ==
    /\ moves' = <<>>
    /\ currentIndex' = -1
    /\ chess' = restorePosition(startingPosition, <<>>, -1)
    /\ result' = Ret("clearHistory", "none")
    /\ UNCHANGED <<historyOn, startingPosition, histMax, config>>

\* history.loadFromPGN(pgn, startingFen)
LoadFromPGN(pgn, sfen) ==
    LET from   == IF sfen = ABSENT_FEN THEN startingPosition ELSE sfen
        parsed == ParseLoop(from, RegexMatches(pgn), <<>>)
    IN  IF ~OracleLoads(from) \/ ~parsed.ok
        THEN /\ result' = Ret("loadFromPGN", "false")
             /\ UNCHANGED <<chess, historyOn, moves, currentIndex, startingPosition,
                            histMax, config>>
        ELSE /\ moves' = parsed.moves
             /\ currentIndex' = Len(parsed.moves) - 1
             /\ chess' = restorePosition(startingPosition, parsed.moves,
                                         Len(parsed.moves) - 1)
             /\ result' = Ret("loadFromPGN", "true")
             /\ UNCHANGED <<historyOn, startingPosition, histMax, config>>

\* history.serialize(), timestamps left out
serialize ==
    [moves |-> moves, startingPosition |-> startingPosition,
     currentIndex |-> currentIndex]

\* the SerializedMoveHistory values a caller may hand to fromSerialized: what
\* serialize() gave, or a stored value of that type with any entries and index
SerializedInputs ==
    {serialize} \cup
    [moves : {<<>>, <<Entry(1, Apply(STARTING_POSITION_FEN, 1))>>},
     startingPosition : {STARTING_POSITION_FEN, ILLEGAL_FEN},
     currentIndex : -2..2]

\* MoveHistory.fromSerialized(data, chess): the returned history replaces the
\* one at hand; a starting position the oracle refuses makes the call throw
FromSerialized(data) ==
    IF ~OracleLoads(data.startingPosition)
    THEN /\ result' = Raised("fromSerialized", "none")
         /\ UNCHANGED <<chess, historyOn, moves, currentIndex, startingPosition,
                        histMax, config>>
    ELSE /\ moves' = data.moves
         /\ currentIndex' = data.currentIndex
         /\ startingPosition' = data.startingPosition
         /\ histMax' = DEFAULT_MAX_HISTORY_LENGTH
         /\ chess' = restorePosition(data.startingPosition, data.moves,
                                     data.currentIndex)
         /\ result' = Ret("fromSerialized", "history")
         /\ UNCHANGED <<historyOn, config>>

\* the loop of getPGN from entry i (0-based) on, over the scratch position p:
\* a move number in front of a move with white to play, "n..." in front of
\* entry 0 with black to play, then the entry's san; the loop ends after the
\* san of an entry the scratch position rejects; an index without an entry
\* makes move.san throw
RECURSIVE PgnLoop(_, _, _, _, _, _)
PgnLoop(p, mvs, i, idx, moveNumber, pgn) ==
    IF i > idx THEN Returned(pgn)
    ELSE IF i >= Len(mvs) THEN Thrown
    ELSE LET move  == mvs[i + 1]
             piece == [prefix |-> IF p.turn = "w" THEN "number"
                                  ELSE IF i = 0 THEN "ellipsis" ELSE "none",
                       moveNumber |-> moveNumber, san |-> move.san]
             next  == IF p.turn = "b" THEN moveNumber + 1 ELSE moveNumber
         IN  IF Legal(p, move.move)
             THEN PgnLoop(Apply(p, move.move), mvs, i + 1, idx, next,
                          Append(pgn, piece))
             ELSE Returned(Append(pgn, piece))

\* MoveHistory.getPGN(): the text, as its moves with their prefixes
getPGN(start, mvs, idx) == PgnLoop(start, mvs, 0, idx, 1, <<>>)

\* history.getPGN()
GetPGNText ==
    /\ result' = IF getPGN(startingPosition, moves, currentIndex).threw
                 THEN Raised("getPGN", "TypeError")
                 ELSE Ret("getPGN",
                          getPGN(startingPosition, moves, currentIndex).value)
    /\ UNCHANGED <<chess, historyOn, moves, currentIndex, startingPosition,
                   histMax, config>>

\* the text getPGN wrote, as the tokens loadFromPGN reads: a token with a
\* move number or an ellipsis number in front of it, or a token alone
PgnTokens(pgn) ==
    [i \in 1..Len(pgn) |-> Tok(pgn[i].san, pgn[i].prefix # "none")]

\* history.loadFromPGN(history.getPGN()), on the text getPGN just returned
ReloadPGN ==
    /\ result.op = "getPGN"
    /\ result.kind = "bare"
    /\ LoadFromPGN(PgnTokens(result.data), ABSENT_FEN)

\* record, undo and redo alone
NextPlay ==
    \/ \E m \in MoveKeys : Record(m) /\ Idle
    \/ Undo /\ Idle
    \/ Redo /\ Idle

SpecPlay == InitTimeline /\ [][NextPlay]_vars

\* every operation of MoveHistory
NextTimeline ==
    \/ \E m \in MoveKeys : Record(m) /\ Idle
    \/ Undo /\ Idle
    \/ Redo /\ Idle
    \/ \E index \in -2..MaxKeep : GoToMove(index) /\ Idle
    \/ GoToBeginning /\ Idle
    \/ GoToEnd /\ Idle
    \/ ClearHistory /\ Idle
    \/ \E pgn \in PgnTexts, sfen \in PgnStarts : LoadFromPGN(pgn, sfen) /\ Idle
    \/ \E data \in SerializedInputs : FromSerialized(data) /\ Idle
    \/ GetPGNText /\ Idle
    \/ ReloadPGN /\ Idle

SpecTimeline == InitTimeline /\ [][NextTimeline]_vars

\* record, undo, redo and the seeks, and a save and reload of the history
NextSeek ==
    \/ \E m \in MoveKeys : Record(m) /\ Idle
    \/ Undo /\ Idle
    \/ Redo /\ Idle
    \/ \E index \in -2..MaxKeep : GoToMove(index) /\ Idle
    \/ GoToBeginning /\ Idle
    \/ GoToEnd /\ Idle
    \/ FromSerialized(serialize) /\ Idle

SpecSeek == InitTimeline /\ [][NextSeek]_vars

---------------------------------------------------------------------------
(* The codecs (fenParser, algebraicNotation) called on their own: a call   *)
(* is drawn with its argument, and the function called returns or throws.  *)

CodecCall(op, arg) ==
    [op |-> op, kind |-> "call", success |-> FALSE, error |-> "none",
     data |-> "none", arg |-> arg]

CodecReturn(op, arg, data) ==
    [op |-> op, kind |-> "bare", success |-> TRUE, error |-> "none",
     data |-> data, arg |-> arg]

CodecThrow(op, arg) ==
    [op |-> op, kind |-> "raised", success |-> FALSE, error |-> "Error",
     data |-> "none", arg |-> arg]

\* the texts of at most n characters of alphabet
TextsUpTo(alphabet, n) == UNION {[1..k -> alphabet] : k \in 0..n}

\* the length of the longest prefix of s without the character c
RECURSIVE SpanUntil(_, _)
SpanUntil(s, c) ==
    IF s = <<>> \/ Head(s) = c THEN 0 ELSE 1 + SpanUntil(Tail(s), c)

\* s.split(c) for a one-character separator
RECURSIVE Split(_, _)
Split(s, c) ==
    LET n == SpanUntil(s, c)
    IN  IF n = Len(s) THEN <<s>>
        ELSE <<SubSeq(s, 1, n)>> \o Split(Drop(s, n + 1), c)

\* parts.join(c)
RECURSIVE Join(_, _)
Join(parts, c) ==
    IF parts = <<>> THEN <<>>
    ELSE IF Len(parts) = 1 THEN parts[1]
    ELSE parts[1] \o <<c>> \o Join(Tail(parts), c)

\* the number a run of decimal digits writes
RECURSIVE DigitsValue(_)
DigitsValue(s) ==
    IF s = <<>> THEN 0
    ELSE 10 * DigitsValue(SubSeq(s, 1, Len(s) - 1)) + DigitVal(s[Len(s)])

\* the value NaN of a number
NaN == [isNaN |-> TRUE, value |-> 0]

Number(n) == [isNaN |-> FALSE, value |-> n]

\* parseInt(s): blanks skipped, an optional sign, then the digits up to the
\* first other character; NaN without a digit
parseInt(s) ==
    LET t      == Drop(s, Span(s, Whitespace))
        signed == t # <<>> /\ Head(t) \in {"+", "-"}
        u      == IF signed THEN Tail(t) ELSE t
        nd     == Span(u, Digits)
    IN  IF nd = 0 THEN NaN
        ELSE IF signed /\ Head(t) = "-"
        THEN Number(0 - DigitsValue(SubSeq(u, 1, nd)))
        ELSE Number(DigitsValue(SubSeq(u, 1, nd)))

DigitChar(d) ==
    CASE d = 0 -> "0" [] d = 1 -> "1" [] d = 2 -> "2" [] d = 3 -> "3"
      [] d = 4 -> "4" [] d = 5 -> "5" [] d = 6 -> "6" [] d = 7 -> "7"
      [] d = 8 -> "8" [] d = 9 -> "9"

\* `${n}` for an integer n
RECURSIVE NumberText(_)
NumberText(n) ==
    IF n < 0 THEN <<"-">> \o NumberText(0 - n)
    ELSE IF n < 10 THEN <<DigitChar(n)>>
    ELSE NumberText(n \div 10) \o <<DigitChar(n % 10)>>

\* FEN_PIECE_PATTERN = /^[rnbqkpRNBQKP1-8]+$/
PieceLetters == {"r", "n", "b", "q", "k", "p", "R", "N", "B", "Q", "K", "P"}

RunDigits == {"1", "2", "3", "4", "5", "6", "7", "8"}

FEN_PIECE_PATTERN(rank) ==
    rank # <<>> /\ \A i \in 1..Len(rank) : rank[i] \in PieceLetters \cup RunDigits

\* FEN_CASTLING_PATTERN = /^(KQkq|[KQkq]{1,4}|-)$/
FEN_CASTLING_PATTERN(castling) ==
    \/ castling = <<"-">>
    \/ /\ Len(castling) \in 1..4
       /\ \A i \in 1..Len(castling) : castling[i] \in {"K", "Q", "k", "q"}

\* FEN_EN_PASSANT_PATTERN = /^([a-h][36]|-)$/
FEN_EN_PASSANT_PATTERN(enPassant) ==
    \/ enPassant = <<"-">>
    \/ /\ Len(enPassant) = 2
       /\ enPassant[1] \in {"a", "b", "c", "d", "e", "f", "g", "h"}
       /\ enPassant[2] \in {"3", "6"}

\* the squares a rank text covers
RECURSIVE squareCount(_)
squareCount(rank) ==
    IF rank = <<>> THEN 0
    ELSE (IF Head(rank) \in RunDigits THEN DigitVal(Head(rank)) ELSE 1)
         + squareCount(Tail(rank))

\* a report of validateFEN that carries an error
Invalid(error) ==
    [isValid |-> FALSE, error |-> error, position |-> "none",
     activeColor |-> "none", castlingRights |-> "none",
     enPassantTarget |-> "none", halfmoveClock |-> "none",
     fullmoveNumber |-> "none"]

\* the first rank from i on that fails a check, with the check it fails
RECURSIVE RankError(_, _)
RankError(ranks, i) ==
    IF i > Len(ranks) THEN "none"
    ELSE IF ~FEN_PIECE_PATTERN(ranks[i]) THEN "RANK_CHARS"
    ELSE IF squareCount(ranks[i]) # 8 THEN "RANK_SQUARES"
    ELSE RankError(ranks, i + 1)

\* validateFEN of fenParser, on the text of a FEN
validateFENText(fen) ==
    IF fen = <<>> THEN Invalid("REQUIRED")
    ELSE LET parts == Split(Trim(fen), " ")
         IN  IF Len(parts) # 6 THEN Invalid("PARTS")
             ELSE LET ranks       == Split(parts[1], "/")
                      halfmoveNum == parseInt(parts[5])
                      fullmoveNum == parseInt(parts[6])
                  IN  IF Len(ranks) # 8 THEN Invalid("RANKS")
                      ELSE IF RankError(ranks, 1) # "none"
                      THEN Invalid(RankError(ranks, 1))
                      ELSE IF parts[2] # <<"w">> /\ parts[2] # <<"b">>
                      THEN Invalid("COLOR")
                      ELSE IF ~FEN_CASTLING_PATTERN(parts[3])
                      THEN Invalid("CASTLING")
                      ELSE IF ~FEN_EN_PASSANT_PATTERN(parts[4])
                      THEN Invalid("EN_PASSANT")
                      ELSE IF halfmoveNum.isNaN \/ halfmoveNum.value < 0
                      THEN Invalid("HALFMOVE")
                      ELSE IF fullmoveNum.isNaN \/ fullmoveNum.value < 1
                      THEN Invalid("FULLMOVE")
                      ELSE [isValid |-> TRUE, error |-> "none",
                            position |-> parts[1], activeColor |-> parts[2],
                            castlingRights |-> parts[3],
                            enPassantTarget |-> parts[4],
                            halfmoveClock |-> halfmoveNum.value,
                            fullmoveNumber |-> fullmoveNum.value]

\* the template string of createFEN, a carrying its six arguments
FenOfParts(a) ==
    Join(<<a.position, a.activeColor, a.castlingRights, a.enPassantTarget,
           NumberText(a.halfmoveClock), NumberText(a.fullmoveNumber)>>, " ")

\* createFEN: the text, thrown when validateFEN refuses it
createFEN(a) ==
    IF validateFENText(FenOfParts(a)).isValid THEN Returned(FenOfParts(a))
    ELSE Thrown

\* comparePositions without the comparison of the en passant targets
comparePositions_ThreeParts(fen1, fen2) ==
    LET parts1 == Split(fen1, " ")
        parts2 == Split(fen2, " ")
    IN  IF Len(parts1) < 4 \/ Len(parts2) < 4 THEN FALSE
        ELSE /\ parts1[1] = parts2[1]
             /\ parts1[2] = parts2[2]
             /\ parts1[3] = parts2[3]

\* comparePositions; the catch has nothing to catch: split and the
\* comparisons do not throw on strings
comparePositions(fen1, fen2) ==
    LET parts1 == Split(fen1, " ")
        parts2 == Split(fen2, " ")
    IN  IF Len(parts1) < 4 \/ Len(parts2) < 4 THEN FALSE
        ELSE /\ parts1[1] = parts2[1]
             /\ parts1[2] = parts2[2]
             /\ parts1[3] = parts2[3]
             /\ parts1[4] = parts2[4]

\* getPositionKey returning the text itself when there are fewer than four
\* parts
getPositionKey_NoThrow(fen) ==
    LET parts == Split(fen, " ")
    IN  IF Len(parts) < 4 THEN Returned(fen)
        ELSE Returned(Join(<<parts[1], parts[2], parts[3], parts[4]>>, " "))

\* getPositionKey: the first four parts, thrown when there are fewer
getPositionKey(fen) ==
    LET parts == Split(fen, " ")
    IN  IF Len(parts) < 4 THEN Thrown
        ELSE Returned(Join(<<parts[1], parts[2], parts[3], parts[4]>>, " "))

\* castling.includes(c)
Includes(s, c) == \E i \in 1..Len(s) : s[i] = c

\* getPositionInfo: the info, thrown when validateFEN refuses the text
getPositionInfo(fen) ==
    LET validation == validateFENText(fen)
        castling   == validation.castlingRights
    IN  IF ~validation.isValid THEN Thrown
        ELSE Returned(
             [activeColor |-> IF validation.activeColor = <<"w">> THEN "white"
                              ELSE "black",
              castlingRights |-> [whiteKingside  |-> Includes(castling, "K"),
                                  whiteQueenside |-> Includes(castling, "Q"),
                                  blackKingside  |-> Includes(castling, "k"),
                                  blackQueenside |-> Includes(castling, "q")],
              enPassantTarget |-> IF validation.enPassantTarget = <<"-">>
                                  THEN <<>> ELSE validation.enPassantTarget,
              halfmoveClock  |-> validation.halfmoveClock,
              fullmoveNumber |-> validation.fullmoveNumber])

\* the empty rank, and placements: the empty board, a pawn on a8, seven
\* ranks, a letter that is no piece, and a rank of seven squares
EmptyRank == <<"8">>

Board(firstRank, n) == Join(<<firstRank>> \o [i \in 1..(n - 1) |-> EmptyRank], "/")

PlacementTexts ==
    {Board(EmptyRank, 8), Board(<<"p", "7">>, 8), Board(EmptyRank, 7),
     Board(<<"x", "7">>, 8), Board(<<"7">>, 8)}

ColorTexts == {<<"w">>, <<"b">>, <<"x">>}

CastlingTexts == {<<"-">>, <<"q", "K">>, <<"K", "Q", "k", "q", "K">>}

EnPassantTexts == {<<"-">>, <<"e", "3">>, <<"e", "4">>}

\* halfmove clock texts: the numbers up to MaxClock as createFEN writes
\* them, a negative number, no number
HalfmoveTexts ==
    {NumberText(n) : n \in 0..MaxClock} \cup {<<"-", "1">>, <<"x">>}

\* fullmove number texts: the numbers up to MaxClock, a leading zero, a
\* trailing letter, no number
FullmoveTexts ==
    {NumberText(n) : n \in 0..MaxClock}
        \cup {<<"0", "1">>, <<"1", "a">>, <<"x">>}

\* six fields
FieldTexts ==
    {<<pl, co, ca, ep, hm, fm>> :
        pl \in PlacementTexts, co \in ColorTexts, ca \in CastlingTexts,
        ep \in EnPassantTexts, hm \in HalfmoveTexts, fm \in FullmoveTexts}

\* the fields written with the blanks a caller may put between them: one
\* space each, a blank in front or behind, two spaces, a tab for a space, a
\* tab inside a field of the space split, one field less, one field more
Spacings ==
    {"single", "leading", "trailing", "double", "tab", "tabInside", "five",
     "seven"}

Spaced(f, spacing) ==
    CASE spacing = "single"    -> Join(f, " ")
      [] spacing = "leading"   -> <<" ">> \o Join(f, " ")
      [] spacing = "trailing"  -> Join(f, " ") \o <<"\t">>
      [] spacing = "double"    -> f[1] \o <<" ", " ">> \o Join(Tail(f), " ")
      [] spacing = "tab"       -> Join(SubSeq(f, 1, 5), " ") \o <<"\t">> \o f[6]
      [] spacing = "tabInside" -> Join(SubSeq(f, 1, 4), " ") \o <<" ">> \o f[5]
                                    \o <<"\t">> \o f[5] \o <<" ">> \o f[6]
      [] spacing = "five"      -> Join(SubSeq(f, 1, 5), " ")
      [] spacing = "seven"     -> Join(f, " ") \o <<" ">> \o f[6]

FenStrings ==
    {<<>>} \cup {Spaced(f, spacing) : f \in FieldTexts, spacing \in Spacings}

\* castling fields: every text of one to four rights letters, the marker, a
\* fifth letter, the marker doubled and the marker after a letter
CastlingSamples ==
    (TextsUpTo({"K", "Q", "k", "q"}, 4) \ {<<>>})
        \cup {<<"-">>, <<"K", "Q", "k", "q", "K">>, <<"-", "-">>, <<"K", "-">>}

\* en-passant fields: the marker, every square of the files a, e and h, a
\* file off the board, a square with a third character
EnPassantSamples ==
    {<<"-">>, <<"i", "3">>, <<"e", "3", "3">>, <<"e">>}
        \cup {<<file, rank>> : file \in {"a", "e", "h"},
                                rank \in {"1", "2", "3", "4", "5", "6", "7", "8"}}

\* position texts that differ in side to move, castling and en passant alone
FieldFenStrings ==
    {Join(<<Board(EmptyRank, 8), co, ca, ep, <<"0">>, <<"1">>>>, " ") :
        co \in {<<"w">>, <<"b">>}, ca \in CastlingSamples,
        ep \in {<<"-">>, <<"e", "3">>}}
    \cup {Join(<<Board(EmptyRank, 8), co, <<"-">>, ep, <<"0">>, <<"1">>>>, " ") :
            co \in {<<"w">>, <<"b">>}, ep \in EnPassantSamples}

\* the move tokens callers pass to sanitizeNotation: move numbers, dots,
\* blanks, a move letter, a glyph, and the characters of castling
NotationAlphabet == {"1", ".", " ", "a", "+", "0", "-"}

NotationTexts == TextsUpTo(NotationAlphabet, MaxTokLen)

\* the function op is being called and has not returned yet
Calling(op) == result.op = op /\ result.kind = "call"

\* the function returns data
Returns(data) ==
    /\ result' = CodecReturn(result.op, result.arg, data)
    /\ UNCHANGED <<chess, historyOn, moves, currentIndex, startingPosition,
                   histMax, config>>

\* the function throws
Throws ==
    /\ result' = CodecThrow(result.op, result.arg)
    /\ UNCHANGED <<chess, historyOn, moves, currentIndex, startingPosition,
                   histMax, config>>

SanitizeNotation ==
    /\ Calling("sanitizeNotation")
    /\ Returns(sanitizeNotation(result.arg))

\* a function that may throw: its value is returned, or the call throws
ReturnsOrThrows(outcome) ==
    IF outcome.threw THEN Throws ELSE Returns(outcome.value)

ValidateFEN ==
    /\ Calling("validateFEN")
    /\ Returns(validateFENText(result.arg))

\* createFEN(position, activeColor, castlingRights, enPassantTarget,
\* halfmoveClock, fullmoveNumber) called with the fields of result.arg
CreateFEN ==
    /\ Calling("createFEN")
    /\ ReturnsOrThrows(createFEN(result.arg))

\* createFEN called with the fields of the report validateFEN just returned
CreateFENOfReport ==
    /\ result.op = "validateFEN"
    /\ result.kind = "bare"
    /\ result.data.isValid
    /\ result' = IF createFEN(result.data).threw
                 THEN CodecThrow("createFEN", result.data)
                 ELSE CodecReturn("createFEN", result.data,
                                  createFEN(result.data).value)
    /\ UNCHANGED <<chess, historyOn, moves, currentIndex, startingPosition,
                   histMax, config>>

\* comparePositions(fen1, fen2) called with the two texts that write the
\* fields of result.arg with single spaces
ComparePositions ==
    /\ Calling("comparePositions")
    /\ Returns(comparePositions(Join(result.arg.fields1, " "),
                                Join(result.arg.fields2, " ")))

\* the fields of the positions handed to comparePositions: well-formed
\* fields, all six of them, the first four, or the first three
CompareFields ==
    LET four == {<<pl, co, ca, ep>> :
                    pl \in {Board(EmptyRank, 8), Board(<<"p", "7">>, 8)},
                    co \in {<<"w">>, <<"b">>},
                    ca \in {<<"-">>, <<"K", "Q", "k", "q">>},
                    ep \in {<<"-">>, <<"e", "3">>}}
    IN  four \cup {SubSeq(f, 1, 3) : f \in four}
             \cup {f \o <<NumberText(hm), <<"1">>>> :
                      f \in four, hm \in 0..MaxClock}

\* piece.toUpperCase() for the piece symbols of the oracle's moves
toUpperCase(piece) ==
    CASE piece = "p" -> "P" [] piece = "n" -> "N" [] piece = "b" -> "B"
      [] OTHER -> piece

\* the moves of possibleMoves by a piece of the type of move, to its
\* destination, from another square
samePieceMoves(move, possibleMoves) ==
    {m \in possibleMoves : /\ toUpperCase(m.piece) = toUpperCase(move.piece)
                           /\ m.to = move.to
                           /\ m.from # move.from}

\* getDisambiguation with the rank tried before the file
getDisambiguation_RankFirst(move, possibleMoves) ==
    LET same == samePieceMoves(move, possibleMoves)
    IN  IF toUpperCase(move.piece) = "P" THEN <<>>
        ELSE IF same = {} THEN <<>>
        ELSE IF ~\E m \in same : m.from[2] = move.from[2]
        THEN <<move.from[2]>>
        ELSE IF ~\E m \in same : m.from[1] = move.from[1]
        THEN <<move.from[1]>>
        ELSE move.from

\* getDisambiguation(chess, move), possibleMoves being what
\* chess.moves({ verbose: true }) lists
getDisambiguation(move, possibleMoves) ==
    LET same == samePieceMoves(move, possibleMoves)
    IN  IF toUpperCase(move.piece) = "P" THEN <<>>
        ELSE IF same = {} THEN <<>>
        ELSE IF ~\E m \in same : m.from[1] = move.from[1]
        THEN <<move.from[1]>>
        ELSE IF ~\E m \in same : m.from[2] = move.from[2]
        THEN <<move.from[2]>>
        ELSE move.from

GetDisambiguation ==
    /\ Calling("getDisambiguation")
    /\ Returns(getDisambiguation(result.arg.move, result.arg.possibleMoves))

FileChar(i) ==
    CASE i = 1 -> "a" [] i = 2 -> "b" [] i = 3 -> "c" [] i = 4 -> "d"
      [] i = 5 -> "e" [] i = 6 -> "f" [] i = 7 -> "g" [] i = 8 -> "h"

\* the squares of the first MaxBoard files and ranks
BoardSquares ==
    {<<FileChar(f), DigitChar(r)>> : f \in 1..MaxBoard, r \in 1..MaxBoard}

\* the moves disambiguated: a pawn's or a knight's to h8
DisambiguatedMoves ==
    {[piece |-> pc, from |-> sq, to |-> <<"h", "8">>] :
        pc \in {"p", "n"}, sq \in BoardSquares}

\* the moves the oracle may list besides: knight moves to h8, a bishop
\* move to h8 and a knight move to h7
OtherMoves ==
    {[piece |-> "n", from |-> sq, to |-> <<"h", "8">>] : sq \in BoardSquares}
        \cup {[piece |-> "b", from |-> <<"a", "1">>, to |-> <<"h", "8">>],
              [piece |-> "n", from |-> <<"a", "1">>, to |-> <<"h", "7">>]}

\* the lists of legal moves the oracle gives: the move itself (a move being
\* disambiguated is legal) and at most MaxOthers other moves
MoveLists(move) ==
    {{move} \cup {others[i] : i \in 1..MaxOthers} :
        others \in [1..MaxOthers -> OtherMoves]} \cup {{move}}

\* loadFEN of fenParser: throws when validateFEN refuses the text, and
\* rethrows what new Chess(fen) throws when the oracle refuses it; whether
\* the oracle accepts a text validateFEN accepted is the oracle's choice
LoadFENText ==
    /\ Calling("loadFEN")
    /\ IF ~validateFENText(result.arg).isValid THEN Throws
       ELSE \E accepted \in BOOLEAN :
                IF accepted THEN Returns("Chess") ELSE Throws

GetPositionInfo ==
    /\ Calling("getPositionInfo")
    /\ ReturnsOrThrows(getPositionInfo(result.arg))

GetPositionKey ==
    /\ Calling("getPositionKey")
    /\ ReturnsOrThrows(getPositionKey(result.arg))

\* the texts handed to loadFEN, getPositionInfo and getPositionKey: a board
\* or a rank with a wrong letter, a side, an en passant target, clocks, in
\* every spacing
ShortFieldTexts ==
    {<<pl, co, <<"-">>, ep, hm, fm>> :
        pl \in {Board(EmptyRank, 8), Board(<<"x", "7">>, 8)},
        co \in {<<"w">>, <<"x">>}, ep \in {<<"-">>, <<"e", "4">>},
        hm \in {<<"0">>, <<"x">>}, fm \in {<<"1">>, <<"0">>}}

ShortFenStrings ==
    {<<>>} \cup {Spaced(f, spacing) : f \in ShortFieldTexts,
                                      spacing \in Spacings}
           \cup {Join(SubSeq(f, 1, n), " ") : f \in ShortFieldTexts, n \in 1..4}

\* the moves parseAlgebraicNotation and parseUciNotation return
null == [isNull |-> TRUE, move |-> 0]

ChessMove(m) == [isNull |-> FALSE, move |-> m]

\* parseAlgebraicNotation(chess, notation): the move, undone again, or null
\* for an empty token and for a token chess.move throws on
parseAlgebraicNotation(p, notation) ==
    LET cleanNotation == sanitizeNotation(notation)
    IN  IF cleanNotation = <<>> THEN null
        ELSE IF SanLegal(p, cleanNotation)
        THEN ChessMove(CHOOSE m \in MoveKeys :
                           cleanNotation = <<SanChar(m)>> /\ Legal(p, m))
        ELSE null

ParseAlgebraicNotation ==
    /\ Calling("parseAlgebraicNotation")
    /\ Returns(parseAlgebraicNotation(result.arg.position, result.arg.notation))

\* the name of the square the counter stands on
SquareName(sq) == <<"a", DigitChar(sq + 1)>>

\* uci.slice(from, to)
Slice2(s, from, to) ==
    IF from >= Len(s) THEN <<>>
    ELSE SubSeq(s, from + 1, IF to < Len(s) THEN to ELSE Len(s))

\* chess.move({ from, to, promotion }) succeeds on p with the move key m
UciLegal(p, from, to, m) ==
    /\ Legal(p, m)
    /\ from = SquareName(p.sq)
    /\ to = SquareName(p.sq + m)

\* parseUciNotation(chess, uci): null for less than four characters and for
\* a move chess.move throws on, else the move, undone again
parseUciNotation(p, uci) ==
    IF Len(uci) < 4 THEN null
    ELSE LET from == Slice2(uci, 0, 2)
             to   == Slice2(uci, 2, 4)
         IN  IF \E m \in MoveKeys : UciLegal(p, from, to, m)
             THEN ChessMove(CHOOSE m \in MoveKeys : UciLegal(p, from, to, m))
             ELSE null

ParseUciNotation ==
    /\ Calling("parseUciNotation")
    /\ Returns(parseUciNotation(result.arg.position, result.arg.notation))

\* the tokens handed to parseAlgebraicNotation
ParseTexts ==
    {<<>>, <<" ">>, <<"+">>} \cup {NotationOf(i) : i \in StringInputs}
        \cup {NotationOf(i) \o <<"+">> : i \in StringInputs}

\* the coordinate tokens handed to parseUciNotation
UciTexts ==
    {<<>>, <<"a", "1">>, <<"a", "1", "a">>}
        \cup {SquareName(i) \o SquareName(j) : i, j \in 0..MaxSq}
        \cup {SquareName(i) \o SquareName(j) \o <<"q">> : i, j \in 0..MaxSq}

\* the fields createFEN is called with directly
CreateArgs ==
    {[position |-> pl, activeColor |-> co, castlingRights |-> ca,
      enPassantTarget |-> ep, halfmoveClock |-> hm, fullmoveNumber |-> fm] :
        pl \in PlacementTexts, co \in ColorTexts, ca \in CastlingTexts,
        ep \in EnPassantTexts, hm \in -1..MaxClock, fm \in 0..MaxClock}

CodecCalls ==
    {CodecCall("sanitizeNotation", t) : t \in NotationTexts}
        \cup {CodecCall("validateFEN", fen) : fen \in FenStrings \cup FieldFenStrings}
        \cup {CodecCall("createFEN", a) : a \in CreateArgs}
        \cup {CodecCall("comparePositions", [fields1 |-> f1, fields2 |-> f2]) :
                    f1 \in CompareFields, f2 \in CompareFields}
        \cup {CodecCall(op, fen) :
                    op \in {"loadFEN", "getPositionInfo", "getPositionKey"},
                    fen \in ShortFenStrings}
        \cup {CodecCall("parseAlgebraicNotation",
                         [position |-> p, notation |-> t]) :
                    p \in Positions, t \in ParseTexts}
        \cup {CodecCall("parseUciNotation",
                         [position |-> p, notation |-> t]) :
                    p \in Positions, t \in UciTexts}
        \cup UNION {{CodecCall("getDisambiguation",
                                [move |-> mv, possibleMoves |-> pm]) :
                        pm \in MoveLists(mv)} : mv \in DisambiguatedMoves}

InitCodec ==
    /\ chess = STARTING_POSITION_FEN
    /\ historyOn = FALSE
    /\ moves = <<>>
    /\ currentIndex = -1
    /\ startingPosition = STARTING_POSITION_FEN
    /\ histMax = 0
    /\ config = [enableHistory |-> FALSE, maxHistoryLength |-> 1]
    /\ result \in CodecCalls
    /\ logging = FALSE
    /\ twin = NoTwin
    /\ EngineOff

NextCodec ==
    \/ SanitizeNotation /\ Idle
    \/ ValidateFEN /\ Idle
    \/ CreateFEN /\ Idle
    \/ CreateFENOfReport /\ Idle
    \/ ComparePositions /\ Idle
    \/ GetDisambiguation /\ Idle
    \/ LoadFENText /\ Idle
    \/ GetPositionInfo /\ Idle
    \/ GetPositionKey /\ Idle
    \/ ParseAlgebraicNotation /\ Idle
    \/ ParseUciNotation /\ Idle

SpecCodec == InitCodec /\ [][NextCodec]_vars

---------------------------------------------------------------------------
(* Legality and notation queries on the live position: each tries the move *)
(* on the Chess instance it is handed and takes it back, or tries it on a  *)
(* copy.                                                                   *)

\* the position chess.undo() leaves after the move m led to p
undo(p, m) == Fen("ok", p.sq - m, Other(p.turn))

\* validateMove without its chess.undo()
validateMove_NoUndo(p, input) ==
    LET ok == IF input.kind = "string" THEN SanLegal(p, NotationOf(input))
              ELSE Legal(p, input.tok)
    IN  [isValid |-> ok, chess |-> IF ok THEN Apply(p, input.tok) ELSE p]

\* validateMove(chess, move): chess.move(move), undone when it succeeded; a
\* string goes to chess.move as it was typed
validateMove(p, input) ==
    LET ok == IF input.kind = "string" THEN SanLegal(p, NotationOf(input))
              ELSE Legal(p, input.tok)
    IN  [isValid |-> ok,
         chess |-> IF ok THEN undo(Apply(p, input.tok), input.tok) ELSE p]

\* what a query hands back, on a controller or a Chess instance left as is
\* but for its live position
Answers(op, data, p) ==
    /\ result' = Ret(op, data)
    /\ chess' = p
    /\ UNCHANGED <<historyOn, moves, currentIndex, startingPosition, histMax,
                   config>>
    /\ Idle

ValidateMove(input) ==
    LET v == validateMove(chess, input)
    IN  Answers("validateMove", IF v.isValid THEN "valid" ELSE "invalid", v.chess)

\* isLegalMove(chess, move) == validateMove(chess, move).isValid
IsLegalMove(input) ==
    LET v == validateMove(chess, input)
    IN  Answers("isLegalMove", IF v.isValid THEN "true" ELSE "false", v.chess)

\* parseAlgebraicNotation on the live position: chess.move(cleanNotation),
\* undone when it succeeded
ParseAlgebraicLive(notation) ==
    LET move == parseAlgebraicNotation(chess, notation)
    IN  Answers("parseAlgebraicNotation", IF move.isNull THEN "null" ELSE "move",
                IF move.isNull THEN chess
                ELSE undo(Apply(chess, move.move), move.move))

\* parseUciNotation on the live position
ParseUciLive(uci) ==
    LET move == parseUciNotation(chess, uci)
    IN  Answers("parseUciNotation", IF move.isNull THEN "null" ELSE "move",
                IF move.isNull THEN chess
                ELSE undo(Apply(chess, move.move), move.move))

\* ChessEngine.isMoveLegal(moveInput): the move is tried on
\* new Chess(this.chess.fen())
IsMoveLegal(input) ==
    /\ result' = Ok("isMoveLegal", input.kind,
                    IF Accepts(chess, input) THEN "true" ELSE "false")
    /\ UNCHANGED <<chess, historyOn, moves, currentIndex, startingPosition,
                   histMax, config>>
    /\ Idle

\* the queries, between moves made on the controller
NextQuery ==
    \/ \E input \in MoveInputs : ValidateMove(input)
    \/ \E input \in MoveInputs : IsLegalMove(input)
    \/ \E notation \in ParseTexts : ParseAlgebraicLive(notation)
    \/ \E uci \in UciTexts : ParseUciLive(uci)
    \/ \E input \in MoveInputs : IsMoveLegal(input)
    \/ \E input \in MoveInputs : MakeMove(input, "none") /\ Idle

SpecQuery == Init /\ [][NextQuery]_vars

---------------------------------------------------------------------------
(* The analysis engine: one Stockfish worker shared by every               *)
(* analyzePosition call.  A call registers a message handler on the worker *)
(* and posts its commands; the worker reads the commands in order and      *)
(* writes lines; a line is delivered to every handler registered when it   *)
(* arrives.                                                                *)

Command(cmd, fen) == [cmd |-> cmd, fen |-> fen]

\* a line the worker writes: 'info depth ...' and 'bestmove ...' answer the
\* position the worker was given, any other line answers 'uci' or 'isready'
Line(type, fen) == [type |-> type, fen |-> fen]

\* the position texts handed to analyzePosition
AnalysisFens == {STARTING_POSITION_FEN, Fen("ok", 1, "b"), MALFORMED_FEN}

\* the controller, its history and the codecs are left alone
EngineCall ==
    UNCHANGED <<chess, historyOn, moves, currentIndex, startingPosition,
                histMax, config, result, logging, twin>>

\* the call about to be made: the first that was not made yet
NextAnalysis(c) ==
    /\ analyses[c].status = "unused"
    /\ \A d \in 1..(c - 1) : analyses[d].status # "unused"

\* engine.initialize(): initializeStockfish() creates the worker and posts
\* 'uci' and 'isready', or returns false where there is no window or the
\* import fails
Initialize ==
    /\ ~stockfishEngine.ready
    /\ \E loaded \in BOOLEAN :
          /\ isInitialized' = loaded
          /\ stockfishEngine' =
                IF loaded
                THEN [NoEngine EXCEPT
                        !.ready = TRUE,
                        !.commands = <<Command("uci", NoPosition),
                                       Command("isready", NoPosition)>>]
                ELSE stockfishEngine
    /\ UNCHANGED analyses
    /\ EngineCall

\* analyzePosition(fen), as far as its promise: null without an engine, null
\* for a text chess.load throws on (the outer catch takes the rethrown
\* error), else a pending promise with its timeout armed and two commands
\* posted
analyzePosition(a, fen, engine) ==
    IF ~engine.ready THEN [a EXCEPT !.status = "null", !.fen = fen]
    ELSE IF ~OracleLoads(fen) THEN [a EXCEPT !.status = "null", !.fen = fen]
    ELSE [a EXCEPT !.status = "pending", !.fen = fen, !.timeout = TRUE,
                   !.sent = 2]

\* the handler is registered and the commands are posted by a call whose
\* promise is pending
Posted(c, fen) ==
    IF analyses'[c].status = "pending"
    THEN stockfishEngine' =
            [stockfishEngine EXCEPT
                !.listeners = @ \cup {c},
                !.commands = @ \o <<Command("position", fen),
                                    Command("go", NoPosition)>>]
    ELSE UNCHANGED stockfishEngine

\* analyzePosition(fen) called directly
AnalyzePosition(c, fen) ==
    /\ NextAnalysis(c)
    /\ analyses' = [analyses EXCEPT
                      ![c] = analyzePosition(analyses[c], fen, stockfishEngine)]
    /\ Posted(c, fen)
    /\ UNCHANGED isInitialized
    /\ EngineCall

\* engine.analyze(fen) of the wrapper: throws when the engine is not
\* initialized, else awaits analyzePosition and hands null on
Analyze(c, fen) ==
    /\ NextAnalysis(c)
    /\ analyses' =
          [analyses EXCEPT
              ![c] = IF ~isInitialized \/ ~stockfishEngine.ready
                     THEN [analyses[c] EXCEPT !.status = "raised", !.fen = fen,
                                              !.via = "wrapper"]
                     ELSE [analyzePosition(analyses[c], fen, stockfishEngine)
                              EXCEPT !.via = "wrapper"]]
    /\ Posted(c, fen)
    /\ UNCHANGED isInitialized
    /\ EngineCall

\* the timeout callback of a call: reject(new Error('Analysis timeout'));
\* rejecting a settled promise does nothing
Timeout(c) ==
    /\ analyses[c].timeout
    /\ analyses' = [analyses EXCEPT
                      ![c].timeout = FALSE,
                      ![c].status = IF @ = "pending" THEN "rejected" ELSE @]
    /\ UNCHANGED <<stockfishEngine, isInitialized>>
    /\ EngineCall

\* the worker reads the next command: 'position fen' sets its position, 'go'
\* makes it write the info line and the best move of that position, 'uci'
\* and 'isready' make it write a line of their own
EngineReads ==
    /\ stockfishEngine.commands # <<>>
    /\ LET command == Head(stockfishEngine.commands)
           rest    == [stockfishEngine EXCEPT !.commands = Tail(@)]
       IN  stockfishEngine' =
              CASE command.cmd = "position" -> [rest EXCEPT !.position = command.fen]
                [] command.cmd = "go" ->
                      [rest EXCEPT !.messages =
                          @ \o <<Line("info", rest.position),
                                 Line("bestmove", rest.position)>>]
                [] OTHER -> [rest EXCEPT !.messages = Append(@, Line("other", NoPosition))]
    /\ UNCHANGED <<isInitialized, analyses>>
    /\ EngineCall

\* the listeners left after a line was delivered: a handler removes itself
\* on a 'bestmove' line
Unregistered(listeners, line) ==
    IF line.type = "bestmove" THEN {} ELSE listeners

\* messageHandler of the call a, on a line
messageHandler(a, line) ==
    CASE line.type = "bestmove" ->
            [a EXCEPT !.timeout = FALSE,
                      !.bestMove = IF a.status = "pending" THEN line.fen ELSE @,
                      !.status = IF @ = "pending" THEN "resolved" ELSE @]
      [] line.type = "info" ->
            [a EXCEPT !.evaluation = IF a.status = "pending" THEN line.fen ELSE @]
      [] OTHER -> a

\* the next line of the worker is delivered: every registered handler runs
Deliver ==
    /\ stockfishEngine.messages # <<>>
    /\ LET line == Head(stockfishEngine.messages)
       IN  /\ analyses' =
                 [c \in 1..MaxAnalyses |->
                     IF c \in stockfishEngine.listeners
                     THEN messageHandler(analyses[c], line)
                     ELSE analyses[c]]
           /\ stockfishEngine' =
                 [stockfishEngine EXCEPT
                     !.messages = Tail(@),
                     !.listeners = Unregistered(@, line)]
    /\ UNCHANGED isInitialized
    /\ EngineCall

NextEngine ==
    \/ Initialize
    \/ \E c \in 1..MaxAnalyses, fen \in AnalysisFens : AnalyzePosition(c, fen)
    \/ \E c \in 1..MaxAnalyses, fen \in AnalysisFens : Analyze(c, fen)
    \/ \E c \in 1..MaxAnalyses : Timeout(c)
    \/ EngineReads
    \/ Deliver

\* a page that has built no controller yet
InitEngine ==
    /\ Constructed(STARTING_POSITION_FEN,
                   [enableHistory |-> FALSE, maxHistoryLength |-> 1])
    /\ logging = FALSE
    /\ twin = NoTwin
    /\ EngineOff

SpecEngine == InitEngine /\ [][NextEngine]_vars

\* the timers fire, the worker reads what it is sent, and its lines arrive
SpecEngineFair ==
    /\ SpecEngine
    /\ WF_vars(EngineReads)
    /\ WF_vars(Deliver)
    /\ \A c \in 1..MaxAnalyses : WF_vars(Timeout(c))

---------------------------------------------------------------------------
(* Claims                                                                  *)

\* the outcome of a replay the oracle rejected
REJECTED == Fen("rejected", 0, "w")

\* the entries applied one after the other through the oracle, from p
RECURSIVE OracleReplay(_, _)
OracleReplay(p, mvs) ==
    IF mvs = <<>> THEN p
    ELSE IF p # REJECTED /\ Legal(p, Head(mvs).move)
         THEN OracleReplay(Apply(p, Head(mvs).move), Tail(mvs))
         ELSE REJECTED

\* entries[0..cursor]
UpToCursor == Slice(moves, 0, currentIndex + 1)

\* C1: with history enabled, after any sequence of controller operations the
\* live position is the replay of entries[0..cursor] through the oracle from
\* the Timeline's starting record.
C1_LiveIsReplay ==
    historyOn => chess = OracleReplay(startingPosition, UpToCursor)

\* C2: after any sequence of Timeline operations the cursor lies in
\* [-1, length-1].
C2_CursorInRange ==
    /\ -1 <= currentIndex
    /\ currentIndex <= Len(moves) - 1

\* the position the oracle was in before it made the move of entry e
Before(e) == Fen("ok", e.fen.sq - e.move, Other(e.fen.turn))

\* the first retained entry was not made from the starting position: older
\* entries have been evicted
Evicted == moves # <<>> /\ Before(moves[1]) # startingPosition

C4_Eviction ==
    [][ LET kept == Slice(moves, 0, currentIndex + 1)
            over == Len(kept) + 1 - histMax
        IN  (result'.op = "addMove" /\ over > 0)
            => /\ Len(moves') = histMax
               /\ \A i \in 1..(histMax - 1) : moves'[i] = kept[i + over]
               /\ moves'[histMax].fen = chess'
               /\ Before(moves'[histMax]) = chess
               /\ currentIndex' = (currentIndex + 1) - over
               /\ currentIndex' >= -1
               /\ currentIndex' = Len(moves') - 1
      ]_vars

\* a record has evicted the oldest entry of a history of more than one entry
C4_Witness ==
    /\ result.op = "addMove"
    /\ Evicted
    /\ histMax > 1
    /\ Len(moves) = histMax
    /\ currentIndex = histMax - 1

\* C5: after recorded moves, undo() puts the live position back to the one
\* before the last recorded move, and a redo() right after the undo puts the
\* live position and the cursor back to what they were before the undo.
C5_UndoRedoInverse ==
    [][ /\ (result.op = "addMove" /\ result'.op = "undo")
           => /\ result'.data = "true"
              /\ chess' = Before(moves[currentIndex + 1])
        /\ (result.op = "undo" /\ result.data = "true" /\ result'.op = "redo")
           => /\ result'.data = "true"
              /\ currentIndex' = currentIndex + 1
              /\ chess' = moves[currentIndex + 2].fen
      ]_vars

\* C6: a successful loadFEN(x), history enabled or not, leaves the live
\* position at x, and the history, where there is one, empty, with index -1
\* and starting position x.
C6_LoadFENLoads ==
    [][ \A fen \in FenTexts :
          (LoadFEN(fen, "none") /\ result'.success)
          => /\ chess' = fen
             /\ isCheckmate(fen) => isCheckmate(chess')
             /\ historyOn => /\ moves' = <<>>
                             /\ currentIndex' = -1
                             /\ startingPosition' = fen
      ]_vars

\* C7: when the game is over, makeMove fails with GAME_OVER whatever the
\* input, and the live position, the entries and the index stay as they were.
C7_GameOverRefuses ==
    [][ (result'.op = "makeMove" /\ isGameOver(chess))
        => /\ result'.kind = "result"
           /\ ~result'.success
           /\ result'.error = "GAME_OVER"
           /\ UNCHANGED <<chess, moves, currentIndex>>
      ]_vars

\* makeMove was refused on a finished game that has entries recorded
C7_Witness ==
    /\ result.op = "makeMove"
    /\ result.error = "GAME_OVER"
    /\ isGameOver(chess)
    /\ historyOn
    /\ currentIndex >= 0

\* C8: when the game is not over and the oracle rejects the move, makeMove
\* fails with INVALID_NOTATION for a string and INVALID_MOVE for a move
\* object, and the live position, the entries and the index stay as they were.
C8_RejectedMove ==
    [][ \A input \in MoveInputs :
          ( /\ result'.op = "makeMove"
            /\ ~isGameOver(chess)
            /\ ~Accepts(chess, input)
            /\ MakeMove(input, "none") )
          => /\ result'.kind = "result"
             /\ ~result'.success
             /\ result'.error = IF input.kind = "string" THEN "INVALID_NOTATION"
                                ELSE "INVALID_MOVE"
             /\ UNCHANGED <<chess, moves, currentIndex>>
      ]_vars

\* a move object was rejected on a game in progress that has entries recorded
C8_Witness ==
    /\ result.op = "makeMove"
    /\ result.arg = "object"
    /\ result.error = "INVALID_MOVE"
    /\ ~isGameOver(chess)
    /\ historyOn
    /\ currentIndex >= 0

\* the operations of ChessEngine that return an EngineOperationResult
ResultOps == {"makeMove", "loadFEN", "reset", "undoMove", "redoMove",
              "getHistory", "getPGN", "loadPGN"}

C10_BadFENRefused ==
    [][ \A fen \in FenTexts :
          (LoadFEN(fen, "none") /\ (~validateFEN(fen) \/ ~OracleLoads(fen)))
          => /\ result'.kind = "result"
             /\ ~result'.success
             /\ result'.error = "INVALID_FEN"
             /\ UNCHANGED <<chess, moves, currentIndex>>
      ]_vars

\* loadFEN was refused on a controller that has entries recorded and is
\* away from its starting position
C10_Witness ==
    /\ result.op = "loadFEN"
    /\ result.error = "INVALID_FEN"
    /\ historyOn
    /\ currentIndex >= 0
    /\ chess # startingPosition

\* C11: parsing a move-numbered transcript whose tokens are all legal in
\* sequence from the starting position succeeds and gives one entry per move
\* token, white's and black's, in transcript order, the cursor on the last.
C11_TranscriptParsed ==
    [][ \A pgn \in PgnTexts :
          ( /\ result'.op = "loadFromPGN"
            /\ OracleLoadPgn(startingPosition, pgn).ok
            /\ LoadFromPGN(pgn, ABSENT_FEN) )
          => /\ result'.data = "true"
             /\ Len(moves') = Len(pgn)
             /\ \A i \in 1..Len(pgn) : moves'[i].san = pgn[i].tok
             /\ currentIndex' = Len(pgn) - 1
      ]_vars

\* where loadPGN starts the transcript from
PgnFrom(sfen) == IF sfen = ABSENT_FEN THEN STARTING_POSITION_FEN ELSE sfen

\* C12: loadPGN of a transcript with a token the oracle rejects returns a
\* failure typed VALIDATION_ERROR, and the entries, the cursor and the live
\* position are as before the call: no prefix of the transcript is installed.
C12_TranscriptAllOrNothing ==
    [][ \A pgn \in PgnTexts, sfen \in PgnStarts :
          ( /\ result'.op = "loadPGN"
            /\ OracleLoads(PgnFrom(sfen))
            /\ ~OracleLoadPgn(PgnFrom(sfen), pgn).ok
            /\ LoadPGN(pgn, sfen, "none") )
          => /\ result'.kind = "result"
             /\ ~result'.success
             /\ result'.error = "VALIDATION_ERROR"
             /\ UNCHANGED <<chess, moves, currentIndex>>
      ]_vars

\* C13: for a history built by record, undo, redo and the seeks,
\* fromSerialized(serialize()) gives the same entries, the same cursor and
\* the live position the original had at that cursor.
C13_SerializeRoundTrip ==
    [][ ( /\ result'.op = "fromSerialized"
          /\ -1 <= currentIndex
          /\ currentIndex <= Len(moves) - 1 )
        => /\ moves' = moves
           /\ currentIndex' = currentIndex
           /\ chess' = chess
      ]_vars

\* C14: while the controller has no history, undoMove, redoMove and
\* getHistory fail with HISTORY_ERROR and change nothing, and makeMove still
\* applies a legal move to the live position.
C14_HistoryDisabled ==
    [][ ~historyOn =>
          /\ result'.op \in {"undoMove", "redoMove", "getHistory"}
             => /\ result'.kind = "result"
                /\ ~result'.success
                /\ result'.error = "HISTORY_ERROR"
                /\ UNCHANGED <<chess, historyOn, moves, currentIndex,
                               startingPosition, histMax, config>>
          /\ \A input \in MoveInputs :
               ( /\ result'.op = "makeMove"
                 /\ ~isGameOver(chess)
                 /\ Accepts(chess, input)
                 /\ MakeMove(input, "none") )
               => /\ result'.success
                  /\ chess' = Apply(chess, input.tok)
                  /\ UNCHANGED <<moves, currentIndex>>
      ]_vars

\* redoMove was refused on a controller without a history whose live
\* position has moved on
C14_Witness ==
    /\ ~historyOn
    /\ result.op = "redoMove"
    /\ result.error = "HISTORY_ERROR"
    /\ chess # STARTING_POSITION_FEN
    /\ ~isGameOver(chess)

\* C16: sanitizeNotation is idempotent: sanitizing what it returned gives
\* the same text again, for tokens with repeated move numbers or with
\* glyphs separated by blanks as well.
C16_SanitizeIdempotent ==
    (result.op = "sanitizeNotation" /\ result.kind = "bare")
    => sanitizeNotation(result.data) = result.data

\* C15: for every text x that validateFEN accepts, createFEN called with the
\* fields of validateFEN's report returns exactly x
C15_CreateOfValidate ==
    [][(/\ result.op = "validateFEN"
        /\ result.kind = "bare"
        /\ result'.op = "createFEN")
       => (result'.kind = "bare" /\ result'.data = result.arg)]_vars

Competitors ==
    {m \in result.arg.possibleMoves :
        /\ m.piece = result.arg.move.piece
        /\ m.to = result.arg.move.to
        /\ m.from # result.arg.move.from}

SharesFile == \E m \in Competitors : m.from[1] = result.arg.move.from[1]

SharesRank == \E m \in Competitors : m.from[2] = result.arg.move.from[2]

\* C18: getDisambiguation gives the empty string for a pawn move and for a
\* move without competitor; else the file letter when no competitor shares
\* the origin's file; else the rank digit when no competitor shares the
\* origin's rank; else the full origin square
C18_ThreeTiers ==
    (result.op = "getDisambiguation" /\ result.kind # "call")
        => /\ result.kind = "bare"
           /\ result.arg.move.piece = "p" => result.data = <<>>
           /\ result.arg.move.piece # "p" =>
                /\ Competitors = {} => result.data = <<>>
                /\ (Competitors # {} /\ ~SharesFile)
                      => result.data = <<result.arg.move.from[1]>>
                /\ (Competitors # {} /\ SharesFile /\ ~SharesRank)
                      => result.data = <<result.arg.move.from[2]>>
                /\ (SharesFile /\ SharesRank)
                      => result.data = result.arg.move.from

\* a knight move that needed the full origin square
C18_Witness ==
    /\ result.op = "getDisambiguation"
    /\ result.kind = "bare"
    /\ result.arg.move.piece = "n"
    /\ SharesFile
    /\ SharesRank
    /\ result.data = result.arg.move.from

\* the length of the longest prefix of s without a character of set
RECURSIVE SpanNot(_, _)
SpanNot(s, set) ==
    IF s = <<>> \/ Head(s) \in set THEN 0 ELSE 1 + SpanNot(Tail(s), set)

\* the whitespace-separated fields of a text
RECURSIVE WhitespaceFields(_)
WhitespaceFields(s) ==
    LET t == Drop(s, Span(s, Whitespace))
        n == SpanNot(t, Whitespace)
    IN  IF t = <<>> THEN <<>>
        ELSE <<SubSeq(t, 1, n)>> \o WhitespaceFields(Drop(t, n))

\* the error kind a report of validateFEN stands for
ErrorKind(report) ==
    CASE report.error \in {"REQUIRED", "PARTS"} -> "MalformedRecord"
      [] report.error \in {"RANKS", "RANK_CHARS", "RANK_SQUARES"}
            -> "InvalidPlacement"
      [] report.error = "COLOR"      -> "InvalidSideToMove"
      [] report.error = "CASTLING"   -> "InvalidCastlingRights"
      [] report.error = "EN_PASSANT" -> "InvalidEnPassant"
      [] report.error = "HALFMOVE"   -> "InvalidHalfmove"
      [] report.error = "FULLMOVE"   -> "InvalidFullmove"
      [] report.error = "none"       -> "valid"

\* the six checks on six fields, in their order
PlacementPasses(f) ==
    LET ranks == Split(f[1], "/")
    IN  /\ Len(ranks) = 8
        /\ \A i \in 1..8 : /\ FEN_PIECE_PATTERN(ranks[i])
                           /\ squareCount(ranks[i]) = 8

FirstFailing(f) ==
    IF ~PlacementPasses(f) THEN "InvalidPlacement"
    ELSE IF f[2] \notin {<<"w">>, <<"b">>} THEN "InvalidSideToMove"
    ELSE IF ~FEN_CASTLING_PATTERN(f[3]) THEN "InvalidCastlingRights"
    ELSE IF ~FEN_EN_PASSANT_PATTERN(f[4]) THEN "InvalidEnPassant"
    ELSE IF parseInt(f[5]).isNaN \/ parseInt(f[5]).value < 0
    THEN "InvalidHalfmove"
    ELSE IF parseInt(f[6]).isNaN \/ parseInt(f[6]).value < 1
    THEN "InvalidFullmove"
    ELSE "valid"

\* C19: validateFEN never raises; it reports MalformedRecord exactly when the
\* text does not have 6 whitespace-separated fields; otherwise it reports the
\* first failing check in the order placement, side to move, castling,
\* en passant, halfmove, fullmove, or validity with the parsed field values
C19_ValidateReports ==
    (result.op = "validateFEN" /\ result.kind # "call")
        => /\ result.kind = "bare"
           /\ LET f == WhitespaceFields(result.arg)
                  v == result.data
              IN  IF Len(f) # 6 THEN ErrorKind(v) = "MalformedRecord"
                  ELSE /\ ErrorKind(v) = FirstFailing(f)
                       /\ v.isValid = (FirstFailing(f) = "valid")
                       /\ v.isValid =>
                            /\ v.position = f[1]
                            /\ v.activeColor = f[2]
                            /\ v.castlingRights = f[3]
                            /\ v.enPassantTarget = f[4]
                            /\ v.halfmoveClock = parseInt(f[5]).value
                            /\ v.fullmoveNumber = parseInt(f[6]).value

\* the codec operations
CodecOps ==
    {"validateFEN", "loadFEN", "getPositionInfo", "getPositionKey",
     "createFEN", "parseAlgebraicNotation", "parseUciNotation"}

\* C20 as stated: no codec operation raises, whatever its input
C20_CodecNeverRaises ==
    result.op \in CodecOps => result.kind # "raised"

\* C20, amended: validateFEN, parseAlgebraicNotation and parseUciNotation
\* never raise and report a failure as a value (an invalid report, null);
\* getPositionInfo and createFEN raise exactly when validateFEN refuses the
\* text, loadFEN raises then and returns only texts validateFEN accepts, and
\* getPositionKey raises exactly when the text has fewer than four
\* space-separated parts
C20_RaisesOnInvalid ==
    (result.op \in CodecOps /\ result.kind # "call") =>
        /\ result.op = "validateFEN" => result.kind = "bare"
        /\ result.op = "parseAlgebraicNotation" =>
              /\ result.kind = "bare"
              /\ result.data.isNull
                    = ~SanLegal(result.arg.position,
                                sanitizeNotation(result.arg.notation))
        /\ result.op = "parseUciNotation" =>
              /\ result.kind = "bare"
              /\ result.data.isNull
                    = ~\E m \in MoveKeys :
                          /\ Legal(result.arg.position, m)
                          /\ Len(result.arg.notation) >= 4
                          /\ SubSeq(result.arg.notation, 1, 4)
                                = SquareName(result.arg.position.sq)
                                    \o SquareName(result.arg.position.sq + m)
        /\ result.op = "getPositionInfo" =>
              (result.kind = "raised") = ~validateFENText(result.arg).isValid
        /\ result.op = "loadFEN" =>
              /\ ~validateFENText(result.arg).isValid => result.kind = "raised"
              /\ result.kind \in {"bare", "raised"}
        /\ result.op = "createFEN" =>
              (result.kind = "raised")
                 = ~validateFENText(FenOfParts(result.arg)).isValid
        /\ result.op = "getPositionKey" =>
              (result.kind = "raised")
                 = (Cardinality({i \in 1..Len(result.arg) :
                                     result.arg[i] = " "}) < 3)

\* getPositionKey raised on a text of three fields
C20_Witness ==
    /\ result.op = "getPositionKey"
    /\ result.kind = "raised"
    /\ Len(WhitespaceFields(result.arg)) = 3
    /\ validateFENText(result.arg).error = "PARTS"

\* C21: in every state of the controller the history holds at most as many
\* entries as the configured maxHistoryLength
C21_LengthWithinConfig ==
    historyOn => Len(moves) <= config.maxHistoryLength

\* C22: updateConfig enabling the history on a controller without one
\* attaches an empty history (no entries, index -1) whose starting position
\* is the live position, and leaves the live position as it is
C22_EnableAttachesEmpty ==
    [][\A nc \in NewConfigs :
          (/\ result'.op = "updateConfig"
           /\ ~historyOn
           /\ nc.enableHistory = "true"
           /\ UpdateConfig(nc, "none"))
          => /\ historyOn'
             /\ moves' = <<>>
             /\ currentIndex' = -1
             /\ startingPosition' = chess
             /\ chess' = chess]_vars

\* a history enabled two squares into a game played without one: it is empty
\* and starts at the live position
C22_Witness ==
    /\ result.op = "updateConfig"
    /\ historyOn
    /\ moves = <<>>
    /\ chess.sq = 2
    /\ startingPosition = chess

\* C24: when the oracle rejects a step of the replay restorePosition runs
\* from undo, goToMove, loadFromPGN or fromSerialized, the operation does not
\* report success to its caller
C24_ReplayDesyncReported ==
    [][ ( /\ result'.op \in {"undo", "goToMove", "loadFromPGN", "fromSerialized"}
          /\ OracleReplay(startingPosition',
                          Slice(moves', 0, currentIndex' + 1)) = REJECTED )
        => result'.data \notin {"true", "history"} ]_vars

\* C25: redo with the cursor on the last entry returns false and changes
\* nothing; otherwise, when the oracle rejects the next entry's move on the
\* live position, redo returns false and leaves the cursor and the live
\* position as they were, and when the oracle accepts it, redo returns true
\* with the cursor advanced by exactly one
C25_RedoSoft ==
    [][ result'.op = "redo" =>
          /\ moves' = moves
          /\ currentIndex = Len(moves) - 1
                => /\ result'.data = "false"
                   /\ UNCHANGED <<chess, currentIndex>>
          /\ ( /\ -1 <= currentIndex
               /\ currentIndex < Len(moves) - 1
               /\ ~Legal(chess, moves[currentIndex + 2].move) )
                => /\ result'.data = "false"
                   /\ UNCHANGED <<chess, currentIndex>>
          /\ ( /\ -1 <= currentIndex
               /\ currentIndex < Len(moves) - 1
               /\ Legal(chess, moves[currentIndex + 2].move) )
                => /\ result'.data = "true"
                   /\ currentIndex' = currentIndex + 1
                   /\ chess' = Apply(chess, moves[currentIndex + 2].move)
      ]_vars

\* a redo the oracle rejected: it returned false with the next entry still
\* redo-available
C25_Witness ==
    /\ result.op = "redo"
    /\ result.data = "false"
    /\ -1 <= currentIndex
    /\ currentIndex < Len(moves) - 1
    /\ ~Legal(chess, moves[currentIndex + 2].move)

\* C26: undo with the cursor at -1 returns false and leaves the cursor, the
\* entries and the live position as they are; with the cursor at 0 or above
\* it returns true and moves the cursor back by exactly one; it never
\* removes or alters an entry
C26_UndoKeepsEntries ==
    [][ result'.op = "undo" =>
          /\ moves' = moves
          /\ currentIndex = -1
                => /\ result'.data = "false"
                   /\ UNCHANGED <<chess, currentIndex>>
          /\ currentIndex >= 0
                => /\ result'.data = "true"
                   /\ currentIndex' = currentIndex - 1
      ]_vars

\* an undo stepped back over the second of two entries, which is still there
C26_Witness ==
    /\ result.op = "undo"
    /\ result.data = "true"
    /\ Len(moves) = 2
    /\ currentIndex = 0

\* C27: goToMove(index) with index outside [-1, length-1] returns false and
\* leaves the cursor, the entries and the live position as they are; with
\* index inside the range it returns true, sets the cursor to index, leaves
\* the entries as they are and makes the live position the replay of
\* entries[0..index] from the starting position
C27_Seek ==
    [][ \A index \in -2..MaxKeep :
          (result'.op = "goToMove" /\ GoToMove(index)) =>
             /\ moves' = moves
             /\ (index < -1 \/ index > Len(moves) - 1)
                   => /\ result'.data = "false"
                      /\ UNCHANGED <<chess, currentIndex>>
             /\ (-1 <= index /\ index <= Len(moves) - 1)
                   => /\ result'.data = "true"
                      /\ currentIndex' = index
                      /\ chess' = OracleReplay(startingPosition,
                                               Slice(moves, 0, index + 1))
      ]_vars

\* C28: an accepted makeMove on a controller with a history leaves the new
\* entry last, with the cursor on it (length-1); the entry's position is the
\* live position right after the move, its flags are the oracle's check,
\* checkmate and stalemate flags of that position, and the entries before it
\* are the entries up to the cursor of before, less those evicted
C28_MoveRecorded ==
    [][ (result'.op = "makeMove" /\ result'.success /\ historyOn) =>
          /\ moves' # <<>>
          /\ currentIndex' = Len(moves') - 1
          /\ Len(moves') <= Len(UpToCursor) + 1
          /\ \A i \in 1..(Len(moves') - 1) :
                moves'[i] = UpToCursor[Len(UpToCursor) + 1 - (Len(moves') - i)]
          /\ LET e == moves'[Len(moves')]
             IN  /\ e.fen = chess'
                 /\ chess' = Apply(chess, e.move)
                 /\ e.isCheck = isCheck(chess')
                 /\ e.isCheckmate = isCheckmate(chess')
                 /\ e.isStalemate = isStalemate(chess')
      ]_vars

\* a mating move was recorded after another move
C28_Witness ==
    /\ result.op = "makeMove"
    /\ result.success
    /\ historyOn
    /\ currentIndex = Len(moves) - 1
    /\ moves # <<>>
    /\ moves[Len(moves)].isCheckmate
    /\ chess = moves[Len(moves)].fen

\* C29: a loadPGN given a startingFen that succeeds makes that startingFen
\* the history's starting position, so that the live position afterwards is
\* the one reached by applying the installed entries from startingFen
C29_TranscriptFromStart ==
    [][ \A pgn \in PgnTexts, sfen \in PgnStarts \ {ABSENT_FEN} :
          ( /\ result'.op = "loadPGN"
            /\ result'.success
            /\ result'.data = "true"
            /\ historyOn
            /\ LoadPGN(pgn, sfen, "none") )
          => /\ startingPosition' = sfen
             /\ chess' = OracleReplay(sfen, moves')
      ]_vars

\* the prefix and the token getPGN is to write for entry i (1-based): a move
\* number for a move white made, an ellipsis number for a move black made as
\* the first entry, no prefix for black's other moves
PgnPiece(i) ==
    [prefix |-> IF moves[i].fen.turn = "b" THEN "number"
                ELSE IF i = 1 THEN "ellipsis" ELSE "none",
     san |-> moves[i].san]

\* C30: getPGN writes the tokens of entries 0..cursor and of no other entry,
\* in order, each move white made with a move number in front, and an
\* ellipsis number only in front of a first entry black made
C30_BuildTranscript ==
    result.op = "getPGN" =>
        /\ result.kind = "bare"
        /\ Len(result.data) = currentIndex + 1
        /\ \A i \in 1..Len(result.data) :
              /\ result.data[i].prefix = PgnPiece(i).prefix
              /\ result.data[i].san = PgnPiece(i).san

RECURSIVE AcceptedEntries(_, _)
AcceptedEntries(p, mvs) ==
    IF mvs = <<>> \/ ~Legal(p, Head(mvs).move) THEN 0
    ELSE 1 + AcceptedEntries(Apply(p, Head(mvs).move), Tail(mvs))

\* C31: getPGN never raises, and when a replay step is rejected its output
\* holds the tokens of the entries replayed before the rejected step and no
\* token of the rejected entry or of a later one.
C31_BestEffortPrefix ==
    result.op = "getPGN" =>
        /\ result.kind = "bare"
        /\ Len(result.data) = AcceptedEntries(startingPosition, UpToCursor)
        /\ \A i \in 1..Len(result.data) : result.data[i].san = moves[i].san

\* the place of a rights letter in the canonical order K, Q, k, q
CastlingRank(c) == CASE c = "K" -> 1 [] c = "Q" -> 2 [] c = "k" -> 3 [] c = "q" -> 4

\* the marker, or a non-empty subset of the rights letters in canonical order
\* without repetition
CanonicalCastling(castling) ==
    \/ castling = <<"-">>
    \/ /\ castling # <<>>
       /\ \A i \in 1..Len(castling) : castling[i] \in {"K", "Q", "k", "q"}
       /\ \A i, j \in 1..Len(castling) :
             i < j => CastlingRank(castling[i]) < CastlingRank(castling[j])

\* a text of six fields a single space apart whose placement and side to move
\* pass
ReachesCastling(fen) ==
    LET f == WhitespaceFields(fen)
    IN  /\ Len(f) = 6
        /\ fen = Join(f, " ")
        /\ PlacementPasses(f)
        /\ f[2] \in {<<"w">>, <<"b">>}

\* C32: validateFEN accepts the castling field exactly when it is '-' or a
\* non-empty subset of K, Q, k, q in canonical order without repetition, and
\* reports InvalidCastlingRights for every other castling field.
C32_CastlingCanonical ==
    (result.op = "validateFEN" /\ result.kind = "bare"
        /\ ReachesCastling(result.arg))
        => (ErrorKind(result.data) = "InvalidCastlingRights"
              <=> ~CanonicalCastling(WhitespaceFields(result.arg)[3]))

\* C33: every position text validateFEN accepts has an en-passant field that
\* is '-' or a square on the rank of the side not to move: rank 6 with white
\* to move, rank 3 with black to move.
C33_EnPassantRank ==
    (result.op = "validateFEN" /\ result.kind = "bare" /\ result.data.isValid)
        => LET v == result.data
           IN  \/ v.enPassantTarget = <<"-">>
               \/ /\ Len(v.enPassantTarget) = 2
                  /\ v.enPassantTarget[1]
                        \in {"a", "b", "c", "d", "e", "f", "g", "h"}
                  /\ v.enPassantTarget[2]
                        = IF v.activeColor = <<"w">> THEN "6" ELSE "3"

\* the texts that are a move token: the SAN of a move, or a castling
MoveTokens ==
    {<<SanChar(m)>> : m \in MoveKeys}
        \cup {<<"O", "-", "O">>, <<"O", "-", "O", "-", "O">>}

\* C34: sanitizeNotation never fails, and for every input that is not a
\* parseable move token it returns the empty token: what it returns is a move
\* token or empty.
C34_GarbageToEmpty ==
    (result.op = "sanitizeNotation" /\ result.kind # "call")
        => /\ result.kind = "bare"
           /\ result.data = <<>> \/ result.data \in MoveTokens

\* the legality and notation queries
QueryOps ==
    {"validateMove", "isLegalMove", "parseAlgebraicNotation",
     "parseUciNotation", "isMoveLegal"}

\* C35: a legality or notation query leaves the live position as it was,
\* whether the candidate is legal or not.
C35_QueriesKeepPosition ==
    [][result'.op \in QueryOps => chess' = chess]_vars

\* a legal candidate was validated on a position that moves had led to
C35_Witness ==
    /\ result.op = "validateMove"
    /\ result.data = "valid"
    /\ chess.sq = 1

\* C36: for a Timeline driven by record, undo, redo and seek alone, the live
\* position is the position record of entries[cursor] when the cursor is at
\* an entry, and the starting record when the cursor is -1, eviction or not.
C36_LiveIsEntryRecord ==
    /\ currentIndex = -1 => chess = startingPosition
    /\ currentIndex \in 0..(Len(moves) - 1) => chess = moves[currentIndex + 1].fen

\* the moves of entries, in order
MovesOf(mvs) == [i \in 1..Len(mvs) |-> mvs[i].move]

\* C37: for a Timeline whose entries replay from the starting record, loading
\* the text getPGN wrote, from the same starting record, succeeds and gives
\* the moves of entries[0..cursor] in order.
C37_TranscriptRoundTrip ==
    [][(/\ ReloadPGN
        /\ currentIndex < Len(moves)
        /\ OracleReplay(startingPosition, UpToCursor) # REJECTED)
          => /\ result'.data = "true"
             /\ MovesOf(moves') = MovesOf(UpToCursor)]_vars

\* C38: a call of analyzePosition that resolved did so with the best move and
\* the evaluation the engine reported for the call's own position, also when
\* another call was pending at the same time.
C38_OwnAnswer ==
    \A c \in 1..MaxAnalyses :
        analyses[c].status = "resolved" =>
            /\ analyses[c].bestMove = analyses[c].fen
            /\ analyses[c].evaluation = analyses[c].fen

\* the call c has settled: its promise is resolved or rejected
Settled(c) == analyses[c].status \in {"resolved", "rejected"}

\* C39: every pending analyzePosition call settles, by a 'bestmove' line or
\* by its timeout, and the handler of a settled call is no longer registered
\* on the engine.
C39_SettlesAndUnregisters ==
    /\ \A c \in 1..MaxAnalyses : (analyses[c].status = "pending") ~> Settled(c)
    /\ [](\A c \in 1..MaxAnalyses : Settled(c) => c \notin stockfishEngine.listeners)

\* C40: analyze of the wrapper, on an initialized engine and a position text
\* the oracle refuses, raises to its caller and posts no command.
C40_InvalidFenRaises ==
    \A c \in 1..MaxAnalyses :
        (/\ analyses[c].status # "unused"
         /\ analyses[c].via = "wrapper"
         /\ isInitialized
         /\ ~OracleLoads(analyses[c].fen))
            => /\ analyses[c].status = "raised"
               /\ analyses[c].sent = 0

====
